---- MODULE Spec2Model ----
(***************************************************************************)
(* Load-Tester: the run lifecycle of src/src/web/app.py (the status table, *)
(* the two runner threads, the load process they drive, the process-wide   *)
(* working directory and the shared reports directory) and the endpoint    *)
(* resolution of src/dev/Generate_Report.py.                               *)
(***************************************************************************)
EXTENDS Integers, Sequences, FiniteSets, TLC

(***************************************************************************)
(* Bounds of the model and constants of the program.                       *)
(***************************************************************************)
\* number of runs that are submitted
NumRuns == 2
\* number of output lines a load process emits at most
MaxLines == 11
\* number of output lines of a load process when several runs interleave
ConcLines == 1
\* deque(maxlen=10), app.py line 200
DequeMaxLen == 10

Runs == 1..NumRuns
\* The directory the server was started in; the test directory of run r is r.
OrigDir == 0
\* Exit codes of the load process: success, thresholds crossed, failure.
ExitCodes == {0, 99, 1}

VARIABLES
    test_status,   \* the status table: run id -> dict (a function on its keys)
    thr,           \* per run: the locals of its runner thread
    proc,          \* per run: the load process started by Popen
    cwd,           \* the working directory of the server process (os.chdir)
    dirs,          \* the test directories that exist under RESULTS_FOLDER
    reports,       \* the reports directory: writers of its .html files, newest first
    res,           \* the endpoint resolver's input and output
    dflt,          \* a configured endpoint and the threshold it is given
    stat,          \* a sample of durations and its statistics
    agg,           \* the analysis of one telemetry file: the locals of
                   \* analyze_k6_json_with_timeline and the report rows
    row,           \* the counters of one endpoint and its row of the report
    tl,            \* the timeline and gauge points and the chart series
    trk,           \* the output lines of the load process and the progress
                   \* fields that run_k6_test keeps of them
    loader         \* the endpoints files on disk and what the report
                   \* generator loads of them

runVars == <<test_status, thr, proc, cwd, dirs, reports>>
\* the variables no step of a run touches
\* the parts added to the model last
partVars == <<row, tl, trk, loader>>
offRun == <<res, dflt, stat, agg, partVars>>
vars == <<test_status, thr, proc, cwd, dirs, reports, offRun>>

(***************************************************************************)
(* Python dict operations on the entries of test_status.                   *)
(***************************************************************************)
Put(d, k, v) == (k :> v) @@ d
Has(d, k) == k \in DOMAIN d
SetField(r, k, v) == test_status' = [test_status EXCEPT ![r] = Put(@, k, v)]

\* An error text: a fixed message followed by the joined output lines.
Err(msg, tail) == [msg |-> msg, tail |-> tail]

\* deque(maxlen=DequeMaxLen).append
DequeAppend(q, x) ==
    IF Len(q) >= DequeMaxLen THEN Append(Tail(q), x) ELSE Append(q, x)

\* A directory path resolves: the original directory, or a test directory
\* that has not been removed.
DirExists(d) == d = OrigDir \/ d \in dirs

IdleThread ==
    [pc |-> "idle", runner |-> "none", original_cwd |-> OrigDir,
     exit_code |-> -1, n |-> 0, last_lines |-> <<>>, rel |-> -1,
     result |-> "none", html |-> -1, err |-> Err("", <<>>)]

\* a part of the program that is not exercised
Off == [phase |-> "off"]

\* the parts added last are not exercised
PartsOff == row = Off /\ tl = Off /\ trk = Off /\ loader = Off

NoProc == [st |-> "none", code |-> -1, dir |-> -1, ok |-> FALSE, pending |-> FALSE]

Goto(r, p) == thr' = [thr EXCEPT ![r].pc = p]

Init ==
    /\ test_status = <<>>
    /\ thr = [r \in Runs |-> IdleThread]
    /\ proc = [r \in Runs |-> NoProc]
    /\ cwd = OrigDir
    /\ dirs = {}
    /\ reports = <<>>
    /\ res = Off
    /\ dflt = Off
    /\ stat = Off
    /\ agg = Off
    /\ PartsOff

(***************************************************************************)
(* Submission handlers.  Each inserts the entry with status 'queued' and   *)
(* starts the runner thread; uuid4 ids are fresh, here the next unused id. *)
(* (upload_manual starts run_k6_test exactly as upload_file does.)         *)
(***************************************************************************)
FreshId(r) == r = Len(test_status) + 1

upload_file(r) ==
    /\ FreshId(r)
    /\ test_status' = Append(test_status,
                             [status |-> "queued", stage |-> "Initializing"])
    /\ thr' = [thr EXCEPT ![r].pc = "start", ![r].runner = "k6"]
    /\ UNCHANGED <<proc, cwd, dirs, reports, offRun>>

upload_simple_rate_control(r) ==
    /\ FreshId(r)
    /\ test_status' = Append(test_status,
                             [status |-> "queued",
                              stage |-> "Initializing Simple Rate Control Test",
                              test_type |-> "simple_rate_control"])
    /\ thr' = [thr EXCEPT ![r].pc = "start", ![r].runner = "rate"]
    /\ UNCHANGED <<proc, cwd, dirs, reports, offRun>>

(***************************************************************************)
(* The runner threads: run_k6_test and run_simple_rate_control_test.       *)
(***************************************************************************)
IsK6(r) == thr[r].runner = "k6"

\* raise inside the try block: control reaches the except clause, which
\* writes status and then error.
Raise(r, msg) == thr' = [thr EXCEPT ![r].pc = "set_failed", ![r].err = Err(msg, <<>>)]

TimedOutMsg(r) ==
    IF IsK6(r) THEN "Test timed out" ELSE "Simple rate control test timed out"

\* original_cwd = os.getcwd(); status = 'running'; stage = 'Preparing ...'
\* os.getcwd() raises when the working directory has been removed, and it
\* runs before the try block: the thread then ends leaving the entry as is.
run_start(r) ==
    /\ thr[r].pc = "start"
    /\ IF DirExists(cwd)
       THEN /\ thr' = [thr EXCEPT ![r].original_cwd = cwd, ![r].pc = "prepare"]
            /\ test_status' = [test_status EXCEPT ![r] =
                 Put(Put(@, "status", "running"), "stage",
                     IF IsK6(r) THEN "Preparing test environment"
                     ELSE "Preparing simple rate control test")]
       ELSE /\ Goto(r, "crashed")
            /\ UNCHANGED test_status
    /\ UNCHANGED <<proc, cwd, dirs, reports, offRun>>

\* os.makedirs(test_dir); the shutil.copy calls (absolute paths);
\* os.chdir(test_dir)
run_prepare(r) ==
    /\ thr[r].pc = "prepare"
    /\ dirs' = dirs \cup {r}
    /\ \/ /\ cwd' = r
          /\ Goto(r, "readcfg")
       \/ /\ Raise(r, "Unexpected error")
          /\ UNCHANGED cwd
    /\ UNCHANGED <<test_status, proc, reports, offRun>>

\* The files a relative path finds in directory d: those copied there by
\* the run that owns d, which are this run's only under the same runner.
HasFilesOf(d, r) == d \in dirs /\ thr[d].runner = thr[r].runner

\* open('endpoints.json') / open('a.json'): a path relative to cwd
run_readcfg(r) ==
    /\ thr[r].pc = "readcfg"
    /\ IF HasFilesOf(cwd, r)
       THEN thr' = [thr EXCEPT ![r].pc = "popen", ![r].rel = cwd]
       ELSE thr' = [thr EXCEPT ![r].pc = "set_failed", ![r].rel = cwd,
                               ![r].err = Err("Unexpected error", <<>>)]
    /\ UNCHANGED <<test_status, proc, cwd, dirs, reports, offRun>>

\* stage = 'Running ...'; subprocess.Popen(cmd): the child inherits cwd
run_popen(r) ==
    /\ thr[r].pc = "popen"
    /\ SetField(r, "stage", IF IsK6(r) THEN "Running K6 load test"
                            ELSE "Running rate control test")
    /\ proc' = [proc EXCEPT ![r] = [st |-> "open", code |-> -1, dir |-> cwd,
                                    ok |-> HasFilesOf(cwd, r), pending |-> FALSE]]
    /\ thr' = [thr EXCEPT ![r].pc = "reading", ![r].rel = cwd]
    /\ UNCHANGED <<cwd, dirs, reports, offRun>>

\* for line in proc.stdout: one iteration.  The read blocks until the
\* process has written a line; line n+1 is the (n+1)-th it emitted.  Only
\* run_k6_test keeps last_lines.
run_readline(r) ==
    /\ thr[r].pc = "reading"
    /\ proc[r].pending
    /\ proc' = [proc EXCEPT ![r].pending = FALSE]
    /\ thr' = [thr EXCEPT ![r].n = @ + 1,
                          ![r].last_lines =
                              IF IsK6(r) THEN DequeAppend(@, thr[r].n + 1) ELSE @]
    /\ UNCHANGED <<test_status, cwd, dirs, reports, offRun>>

\* the loop ends when the process has closed its output and every line
\* has been read
run_eof(r) ==
    /\ thr[r].pc = "reading"
    /\ proc[r].st \in {"closed", "exited"}
    /\ ~proc[r].pending
    /\ Goto(r, "wait")
    /\ UNCHANGED <<test_status, proc, cwd, dirs, reports, offRun>>

\* proc.wait(timeout=...) returns; exit_code = proc.returncode
run_wait(r) ==
    /\ thr[r].pc = "wait"
    /\ proc[r].st = "exited"
    /\ thr' = [thr EXCEPT ![r].pc = "check", ![r].exit_code = proc[r].code]
    /\ UNCHANGED <<test_status, proc, cwd, dirs, reports, offRun>>

\* proc.wait(timeout=...) raises TimeoutExpired: the process is still alive
run_wait_timeout(r) ==
    /\ thr[r].pc = "wait"
    /\ proc[r].st = "closed"
    /\ Raise(r, TimedOutMsg(r))
    /\ UNCHANGED <<test_status, proc, cwd, dirs, reports, offRun>>

(***************************************************************************)
(* run_k6_test after the wait.                                             *)
(***************************************************************************)
\* if exit_code != 0 and exit_code != 99: status = 'failed';
\* error = "K6 test failed. Last output: " + ''.join(last_lines); return
k6_check(r) ==
    /\ thr[r].pc = "check"
    /\ IsK6(r)
    /\ IF thr[r].exit_code # 0 /\ thr[r].exit_code # 99
       THEN thr' = [thr EXCEPT ![r].pc = "set_failed",
                      ![r].err = Err("K6 test failed. Last output: ", thr[r].last_lines)]
       ELSE Goto(r, "thresholds")
    /\ UNCHANGED <<test_status, proc, cwd, dirs, reports, offRun>>

\* thresholds_crossed (and warning); stage = 'Generating HTML report'
k6_thresholds(r) ==
    /\ thr[r].pc = "thresholds"
    /\ test_status' = [test_status EXCEPT ![r] =
         Put(IF thr[r].exit_code = 99
             THEN Put(Put(@, "thresholds_crossed", TRUE), "warning",
                      "Some performance thresholds were exceeded during the test")
             ELSE Put(@, "thresholds_crossed", FALSE),
             "stage", "Generating HTML report")]
    /\ Goto(r, "report")
    /\ UNCHANGED <<proc, cwd, dirs, reports, offRun>>

\* The report generator, run with relative paths in cwd, ends in one of:
\*   rc_nonzero  it returns a non-zero code
\*   raised      subprocess.run raises (TimeoutExpired)
\*   no_file     it returns 0 and writes no report (nothing to report)
\*   written     it returns 0 and writes a report, which takes the script
\*               and the telemetry file of the load process to be in cwd
ReportOutcomes(r) ==
    {"rc_nonzero", "raised", "no_file"}
        \cup (IF cwd \in dirs /\ proc[r].ok /\ proc[r].dir = cwd
              THEN {"written"} ELSE {})

\* the reports directory after run r has written a report, newest first
WriteReport(r) == <<r>> \o SelectSeq(reports, LAMBDA x : x # r)

\* result = subprocess.run(report_cmd, timeout=60);
\* if result.returncode != 0: status = 'failed'; error = ...; return
k6_report(r) ==
    /\ thr[r].pc = "report"
    /\ \E o \in ReportOutcomes(r) :
         /\ thr' = [thr EXCEPT
                ![r].rel = cwd,
                ![r].result = o,
                ![r].pc = IF o \in {"rc_nonzero", "raised"} THEN "set_failed"
                          ELSE "findhtml",
                ![r].err = IF o = "rc_nonzero" THEN Err("Report generation failed", <<>>)
                           ELSE IF o = "raised" THEN Err(TimedOutMsg(r), <<>>)
                           ELSE @]
         /\ reports' = IF o = "written" THEN WriteReport(r) ELSE reports
    /\ UNCHANGED <<test_status, proc, cwd, dirs, offRun>>

\* html_files = the .html files of the reports directory, newest first
\* (the absolute path, else the relative "../../data/reports": one shared
\* directory, whoever wrote its files);
\* if not html_files: status = 'failed'; error = ...; return
\* final_report_name = html_files[0]
k6_findhtml(r) ==
    /\ thr[r].pc = "findhtml"
    /\ IF reports = <<>>
       THEN thr' = [thr EXCEPT ![r].pc = "set_failed", ![r].rel = cwd,
                      ![r].err = Err("No HTML report was generated", <<>>)]
       ELSE thr' = [thr EXCEPT ![r].pc = "L323", ![r].rel = cwd,
                      ![r].html = Head(reports)]
    /\ UNCHANGED <<test_status, proc, cwd, dirs, reports, offRun>>

\* test_status[test_id]['status'] = 'completed'
k6_L323(r) ==
    /\ thr[r].pc = "L323"
    /\ SetField(r, "status", "completed")
    /\ Goto(r, "L324")
    /\ UNCHANGED <<proc, cwd, dirs, reports, offRun>>

\* test_status[test_id]['report_file'] = final_report_name
k6_L324(r) ==
    /\ thr[r].pc = "L324"
    /\ SetField(r, "report_file", thr[r].html)
    /\ Goto(r, "L325")
    /\ UNCHANGED <<proc, cwd, dirs, reports, offRun>>

\* test_status[test_id]['summary_file'] = f"{test_name}_summary.json"
k6_L325(r) ==
    /\ thr[r].pc = "L325"
    /\ SetField(r, "summary_file", r)
    /\ Goto(r, "L326")
    /\ UNCHANGED <<proc, cwd, dirs, reports, offRun>>

\* test_status[test_id]['detailed_file'] = f"{test_name}_detailed.json"
k6_L326(r) ==
    /\ thr[r].pc = "L326"
    /\ SetField(r, "detailed_file", r)
    /\ Goto(r, "move")
    /\ UNCHANGED <<proc, cwd, dirs, reports, offRun>>

\* for result_file in [...]: if os.path.exists(result_file): shutil.move(...)
\* relative paths; shutil.move may raise
run_move(r) ==
    /\ thr[r].pc = "move"
    /\ \/ thr' = [thr EXCEPT ![r].pc = "finally", ![r].rel = cwd]
       \/ thr' = [thr EXCEPT ![r].pc = "set_failed", ![r].rel = cwd,
                             ![r].err = Err("Unexpected error", <<>>)]
    /\ UNCHANGED <<test_status, proc, cwd, dirs, reports, offRun>>

(***************************************************************************)
(* Failure writes, the finally block.                                      *)
(***************************************************************************)
\* test_status[test_id]['status'] = 'failed'
run_set_failed(r) ==
    /\ thr[r].pc = "set_failed"
    /\ SetField(r, "status", "failed")
    /\ Goto(r, "set_error")
    /\ UNCHANGED <<proc, cwd, dirs, reports, offRun>>

\* test_status[test_id]['error'] = ...
run_set_error(r) ==
    /\ thr[r].pc = "set_error"
    /\ SetField(r, "error", thr[r].err)
    /\ Goto(r, "finally")
    /\ UNCHANGED <<proc, cwd, dirs, reports, offRun>>

\* finally: os.chdir(original_cwd), which raises when that directory has
\* been removed: the exception leaves the thread, the rmtree is skipped.
run_finally(r) ==
    /\ thr[r].pc = "finally"
    /\ IF DirExists(thr[r].original_cwd)
       THEN cwd' = thr[r].original_cwd /\ Goto(r, "rmtree")
       ELSE UNCHANGED cwd /\ Goto(r, "crashed")
    /\ UNCHANGED <<test_status, proc, dirs, reports, offRun>>

\* shutil.rmtree(test_dir, ignore_errors=True)
run_rmtree(r) ==
    /\ thr[r].pc = "rmtree"
    /\ dirs' = dirs \ {r}
    /\ Goto(r, "done")
    /\ UNCHANGED <<test_status, proc, cwd, reports, offRun>>

(***************************************************************************)
(* run_simple_rate_control_test after the wait.                            *)
(***************************************************************************)
\* if exit_code in [0, 99]: ... else: status = 'failed';
\* error = f"Simple rate control test failed with exit code {exit_code}"
rate_check(r) ==
    /\ thr[r].pc = "check"
    /\ ~IsK6(r)
    /\ IF thr[r].exit_code \in {0, 99}
       THEN Goto(r, "L484")
       ELSE Raise(r, "Simple rate control test failed with exit code")
    /\ UNCHANGED <<test_status, proc, cwd, dirs, reports, offRun>>

\* test_status[test_id]['status'] = 'completed'
rate_L484(r) ==
    /\ thr[r].pc = "L484"
    /\ SetField(r, "status", "completed")
    /\ Goto(r, "L485")
    /\ UNCHANGED <<proc, cwd, dirs, reports, offRun>>

\* test_status[test_id]['stage'] = 'Generating rate control report'
rate_L485(r) ==
    /\ thr[r].pc = "L485"
    /\ SetField(r, "stage", "Generating rate control report")
    /\ Goto(r, "rate_report")
    /\ UNCHANGED <<proc, cwd, dirs, reports, offRun>>

\* result = subprocess.run(report_cmd, timeout=120) inside try/except
\* Exception: a non-zero code and an exception both end in report_error
rate_report(r) ==
    /\ thr[r].pc = "rate_report"
    /\ \E o \in ReportOutcomes(r) :
         /\ thr' = [thr EXCEPT
                ![r].rel = cwd,
                ![r].result = o,
                ![r].pc = IF o \in {"rc_nonzero", "raised"} THEN "report_error"
                          ELSE "rate_findhtml"]
         /\ reports' = IF o = "written" THEN WriteReport(r) ELSE reports
    /\ UNCHANGED <<test_status, proc, cwd, dirs, offRun>>

\* html_files as in run_k6_test; if html_files: final_report_name =
\* html_files[0], else report_error
rate_findhtml(r) ==
    /\ thr[r].pc = "rate_findhtml"
    /\ IF reports = <<>>
       THEN thr' = [thr EXCEPT ![r].pc = "report_error", ![r].rel = cwd]
       ELSE thr' = [thr EXCEPT ![r].pc = "L531", ![r].rel = cwd,
                      ![r].html = Head(reports)]
    /\ UNCHANGED <<test_status, proc, cwd, dirs, reports, offRun>>

\* test_status[test_id]['report_file'] = final_report_name
rate_L531(r) ==
    /\ thr[r].pc = "L531"
    /\ SetField(r, "report_file", thr[r].html)
    /\ Goto(r, "move")
    /\ UNCHANGED <<proc, cwd, dirs, reports, offRun>>

\* test_status[test_id]['report_error'] = ...
rate_report_error(r) ==
    /\ thr[r].pc = "report_error"
    /\ SetField(r, "report_error", thr[r].result)
    /\ Goto(r, "move")
    /\ UNCHANGED <<proc, cwd, dirs, reports, offRun>>

(***************************************************************************)
(* The load process (k6), an external collaborator: it closes its output   *)
(* and exits when it chooses.  With its script or configuration missing    *)
(* from the directory it was started in, it can only fail.                 *)
(***************************************************************************)
\* the process writes one more line (at most maxn in all)
proc_emit(r, maxn) ==
    /\ proc[r].st = "open"
    /\ ~proc[r].pending
    /\ thr[r].n < maxn
    /\ proc' = [proc EXCEPT ![r].pending = TRUE]
    /\ UNCHANGED <<test_status, thr, cwd, dirs, reports, offRun>>

proc_close(r) ==
    /\ proc[r].st = "open"
    /\ proc' = [proc EXCEPT ![r].st = "closed"]
    /\ UNCHANGED <<test_status, thr, cwd, dirs, reports, offRun>>

proc_exit(r) ==
    /\ proc[r].st \in {"open", "closed"}
    /\ \E c \in (IF proc[r].ok THEN ExitCodes ELSE ExitCodes \ {0, 99}) :
         proc' = [proc EXCEPT ![r].st = "exited", ![r].code = c]
    /\ UNCHANGED <<test_status, thr, cwd, dirs, reports, offRun>>

(***************************************************************************)
(* The request handlers that read the table.  They change nothing; what    *)
(* each answers is a function of the table at the moment it reads.         *)
(***************************************************************************)
\* get_test_status: jsonify(test_status[test_id])
get_test_status(r) ==
    IF r \in DOMAIN test_status THEN test_status[r] ELSE [error |-> "Test not found"]

\* download_report: test_status[test_id]['report_file'] raises KeyError
\* when the key is missing
download_report(r) ==
    IF r \notin DOMAIN test_status \/ test_status[r].status # "completed"
    THEN "redirect"
    ELSE IF Has(test_status[r], "report_file") THEN "file" ELSE "KeyError"

\* view_report
view_report(r) ==
    IF r \notin DOMAIN test_status \/ test_status[r].status # "completed"
    THEN "redirect"
    ELSE IF ~Has(test_status[r], "report_file") THEN "redirect_status" ELSE "file"

\* download_results, for file_type in {'summary', 'detailed'}
download_results(r, file_type) ==
    IF r \notin DOMAIN test_status \/ test_status[r].status # "completed"
    THEN "redirect"
    ELSE IF Has(test_status[r], file_type \o "_file") THEN "file" ELSE "KeyError"

RunStep(r) ==
    \/ run_start(r) \/ run_prepare(r) \/ run_readcfg(r) \/ run_popen(r)
    \/ run_readline(r) \/ run_eof(r) \/ run_wait(r) \/ run_wait_timeout(r)
    \/ k6_check(r) \/ k6_thresholds(r) \/ k6_report(r) \/ k6_findhtml(r)
    \/ k6_L323(r) \/ k6_L324(r) \/ k6_L325(r) \/ k6_L326(r)
    \/ rate_check(r) \/ rate_L484(r) \/ rate_L485(r) \/ rate_report(r)
    \/ rate_findhtml(r) \/ rate_L531(r) \/ rate_report_error(r)
    \/ run_move(r) \/ run_set_failed(r) \/ run_set_error(r)
    \/ run_finally(r) \/ run_rmtree(r)

\* One run, with the whole output of its load process.
Next ==
    \E r \in {1} :
        \/ upload_file(r)
        \/ upload_simple_rate_control(r)
        \/ RunStep(r)
        \/ proc_emit(r, MaxLines)
        \/ proc_close(r)
        \/ proc_exit(r)

Spec == Init /\ [][Next]_vars

\* The threads are scheduled; the load process owes nothing.
FairSpec == Spec /\ \A r \in {1} : WF_vars(RunStep(r))

\* Several runs, their threads interleaved, each with a short output.
ConcNext ==
    \E r \in Runs :
        \/ upload_file(r)
        \/ upload_simple_rate_control(r)
        \/ RunStep(r)
        \/ proc_emit(r, ConcLines)
        \/ proc_close(r)
        \/ proc_exit(r)

ConcSpec == Init /\ [][ConcNext]_vars

\* The steps of run_k6_test alone.
StandardStep(r) ==
    \/ run_start(r) \/ run_prepare(r) \/ run_readcfg(r) \/ run_popen(r)
    \/ run_eof(r) \/ run_wait(r) \/ run_wait_timeout(r)
    \/ k6_check(r) \/ k6_thresholds(r) \/ k6_report(r) \/ k6_findhtml(r)
    \/ k6_L323(r) \/ k6_L324(r) \/ k6_L325(r) \/ k6_L326(r)
    \/ run_move(r) \/ run_set_failed(r) \/ run_set_error(r)
    \/ run_finally(r) \/ run_rmtree(r)

\* Standard runs whose threads interleave, and one more standard run that
\* is submitted after their threads have ended.  The load processes write
\* no line.
LaterRun == NumRuns + 1

LaterInit ==
    /\ test_status = <<>>
    /\ thr = [r \in Runs \cup {LaterRun} |-> IdleThread]
    /\ proc = [r \in Runs \cup {LaterRun} |-> NoProc]
    /\ cwd = OrigDir
    /\ dirs = {}
    /\ reports = <<>>
    /\ res = Off
    /\ dflt = Off
    /\ stat = Off
    /\ agg = Off
    /\ PartsOff

\* the threads of the earlier runs have left their functions
EarlierEnded == \A q \in Runs : thr[q].pc \in {"done", "crashed"}

LaterNext ==
    \E r \in Runs \cup {LaterRun} :
        \/ upload_file(r) /\ (r = LaterRun => EarlierEnded)
        \/ StandardStep(r)
        \/ proc_close(r)
        \/ proc_exit(r)

LaterSpec == LaterInit /\ [][LaterNext]_vars

(***************************************************************************)
(* Endpoint resolution (Generate_Report.py).  A string is the sequence of  *)
(* its characters; a tag mapping is a function on the tags it carries.     *)
(***************************************************************************)
\* number of endpoints of a configuration
MaxEndpoints == 2

Get(d, k, default) == IF k \in DOMAIN d THEN d[k] ELSE default

\* str.upper on the letters the methods are written with
UpperChar(c) ==
    CASE c = "g" -> "G" [] c = "e" -> "E" [] c = "t" -> "T"
      [] c = "p" -> "P" [] c = "o" -> "O" [] c = "s" -> "S"
      [] OTHER -> c

Upper(s) == [i \in 1..Len(s) |-> UpperChar(s[i])]

\* endpoint_url.lstrip('/')
RECURSIVE LStrip(_)
LStrip(s) == IF s # <<>> /\ Head(s) = "/" THEN LStrip(Tail(s)) ELSE s

\* s in t
IsSubstr(s, t) ==
    \E i \in 0..(Len(t) - Len(s)) : SubSeq(t, i + 1, i + Len(s)) = s

\* url.split('/')[-1]
LastSegment(url) ==
    LET slashes == {i \in 1..Len(url) : url[i] = "/"}
        last == IF slashes = {} THEN 0
                ELSE CHOOSE i \in slashes : \A j \in slashes : j <= i
    IN  SubSeq(url, last + 1, Len(url))

\* the condition of the loop body of get_endpoint_info_from_config
EndpointMatches(e, url, method) ==
    /\ IsSubstr(LStrip(e.url), url)
    /\ Upper(e.method) = Upper(method)

\* the loop returning the name of the last matching endpoint
get_endpoint_info_last_match(url, method, config) ==
    IF ~config.has
    THEN <<>>
    ELSE LET hits == {i \in 1..Len(config.endpoints) :
                         EndpointMatches(config.endpoints[i], url, method)}
         IN  IF hits = {} THEN <<>>
             ELSE config.endpoints[CHOOSE i \in hits : \A j \in hits : j <= i].name

\* get_endpoint_info_from_config(url, method, config)[0]; None is <<>>,
\* which the caller tests for truth exactly as it tests an empty name
get_endpoint_info_from_config(url, method, config) ==
    IF ~config.has
    THEN <<>>
    ELSE LET hits == {i \in 1..Len(config.endpoints) :
                         EndpointMatches(config.endpoints[i], url, method)}
         IN  IF hits = {} THEN <<>>
             ELSE config.endpoints[CHOOSE i \in hits : \A j \in hits : i <= j].name

\* the chain with the configuration consulted before the route tag
resolve_config_first(tags, config) ==
    LET url == Get(tags, "url", <<>>)
        method == Get(tags, "method", <<"G", "E", "T">>)
        name_tag == Get(tags, "name", <<>>)
        route_tag == Get(tags, "route", <<>>)
        endpoint_name == get_endpoint_info_from_config(url, method, config)
    IN  IF endpoint_name # <<>> THEN endpoint_name
        ELSE IF route_tag # <<>> THEN route_tag
        ELSE IF name_tag # <<>> THEN name_tag
        ELSE IF url # <<>> THEN method \o <<" ">> \o LastSegment(url)
        ELSE <<"u", "n", "k", "n", "o", "w", "n">>

\* the chain with the URL fallback tried before the name tag
resolve_url_before_name(tags, config) ==
    LET url == Get(tags, "url", <<>>)
        method == Get(tags, "method", <<"G", "E", "T">>)
        name_tag == Get(tags, "name", <<>>)
        route_tag == Get(tags, "route", <<>>)
        endpoint_name == get_endpoint_info_from_config(url, method, config)
    IN  IF route_tag # <<>> THEN route_tag
        ELSE IF endpoint_name # <<>> THEN endpoint_name
        ELSE IF url # <<>> THEN method \o <<" ">> \o LastSegment(url)
        ELSE IF name_tag # <<>> THEN name_tag
        ELSE <<"u", "n", "k", "n", "o", "w", "n">>

\* the chain of analyze_k6_json_with_timeline that names the endpoint
resolve(tags, config) ==
    LET url == Get(tags, "url", <<>>)
        method == Get(tags, "method", <<"G", "E", "T">>)
        name_tag == Get(tags, "name", <<>>)
        route_tag == Get(tags, "route", <<>>)
        endpoint_name == get_endpoint_info_from_config(url, method, config)
    IN  IF route_tag # <<>> THEN route_tag
        ELSE IF endpoint_name # <<>> THEN endpoint_name
        ELSE IF name_tag # <<>> THEN name_tag
        ELSE IF url # <<>> THEN method \o <<" ">> \o LastSegment(url)
        ELSE <<"u", "n", "k", "n", "o", "w", "n">>

\* The Duration points and configurations resolved.
TagKeys == {"url", "method", "name", "route"}

TagSamples ==
    [url    |-> {<<>>, <<"h", "/", "a">>, <<"h", "/", "a", "/", "b">>, <<"h", "/", "b", "/">>},
     method |-> {<<"G", "E", "T">>, <<"g", "e", "t">>, <<"P", "O", "S", "T">>},
     name   |-> {<<>>, <<"n">>},
     route  |-> {<<>>, <<"r">>}]

TagDicts ==
    UNION { {f \in [D -> UNION {TagSamples[k] : k \in TagKeys}] :
                \A k \in D : f[k] \in TagSamples[k]} : D \in SUBSET TagKeys }

Endpoints ==
    [url    : {<<"/", "a">>, <<"/">>},
     method : {<<"G", "E", "T">>, <<"p", "o", "s", "t">>},
     name   : {<<"N", "1">>, <<"N", "2">>, <<>>}]

EndpointLists ==
    UNION { [1..n -> Endpoints] : n \in 0..MaxEndpoints }

\* {} (no 'endpoints' key: the defaults) or a configuration with a list
Configs ==
    {[has |-> FALSE, endpoints |-> <<>>]}
        \cup {[has |-> TRUE, endpoints |-> l] : l \in EndpointLists}

\* no run has been submitted
NoRuns ==
    /\ test_status = <<>>
    /\ thr = [r \in Runs |-> IdleThread]
    /\ proc = [r \in Runs |-> NoProc]
    /\ cwd = OrigDir
    /\ dirs = {}
    /\ reports = <<>>

ResolveInit ==
    /\ NoRuns
    /\ dflt = Off
    /\ stat = Off
    /\ agg = Off
    /\ PartsOff
    /\ \E t \in TagDicts, c \in Configs :
         res = [phase |-> "point", tags |-> t, config |-> c]

\* one accepted Duration point: endpoint = ...
resolve_point ==
    /\ res.phase = "point"
    /\ res' = [phase |-> "resolved", tags |-> res.tags, config |-> res.config,
               endpoint |-> resolve(res.tags, res.config)]
    /\ UNCHANGED <<runVars, dflt, stat, agg, partVars>>

ResolveNext == resolve_point

ResolveSpec == ResolveInit /\ [][ResolveNext]_vars

(***************************************************************************)
(* Thresholds (Generate_Report.py l.184-205): each configured endpoint is  *)
(* given its threshold_ms, or a default chosen from its name.              *)
(***************************************************************************)
Uppers ==
    <<"A", "B", "C", "D", "E", "F", "G", "H", "I", "J", "K", "L", "M",
      "N", "O", "P", "Q", "R", "S", "T", "U", "V", "W", "X", "Y", "Z">>

Lowers ==
    <<"a", "b", "c", "d", "e", "f", "g", "h", "i", "j", "k", "l", "m",
      "n", "o", "p", "q", "r", "s", "t", "u", "v", "w", "x", "y", "z">>

\* str.lower
LowerChar(c) ==
    IF \E i \in 1..Len(Uppers) : Uppers[i] = c
    THEN Lowers[CHOOSE i \in 1..Len(Uppers) : Uppers[i] = c]
    ELSE c

Lower(s) == [i \in 1..Len(s) |-> LowerChar(s[i])]

\* the keywords of the defaults
Dashboard == <<"d", "a", "s", "h", "b", "o", "a", "r", "d">>
Student == <<"s", "t", "u", "d", "e", "n", "t">>
List == <<"l", "i", "s", "t">>
Details == <<"d", "e", "t", "a", "i", "l", "s">>
Course == <<"c", "o", "u", "r", "s", "e">>

\* the defaults with 'student' and 'list' tested before 'dashboard'
default_threshold_student_first(endpoint_name) ==
    LET name == Lower(endpoint_name)
    IN  IF IsSubstr(Student, name) /\ IsSubstr(List, name) THEN 2500
        ELSE IF IsSubstr(Dashboard, name) THEN 1500
        ELSE IF IsSubstr(Student, name) /\ IsSubstr(Details, name) THEN 1500
        ELSE IF IsSubstr(Course, name) THEN 5000
        ELSE 2000

\* the fallback defaults, l.196-205
default_threshold(endpoint_name) ==
    LET name == Lower(endpoint_name)
    IN  IF IsSubstr(Dashboard, name) THEN 1500
        ELSE IF IsSubstr(Student, name) /\ IsSubstr(List, name) THEN 2500
        ELSE IF IsSubstr(Student, name) /\ IsSubstr(Details, name) THEN 1500
        ELSE IF IsSubstr(Course, name) THEN 5000
        ELSE 2000

\* endpoint.get('threshold_ms'): <<>> is None, <<t>> the number t.
\* The body of the loop: the value stored in thresholds[endpoint_name].
endpoint_threshold(endpoint) ==
    LET threshold_ms == endpoint.threshold_ms
    IN  IF threshold_ms # <<>> /\ threshold_ms[1] # 0
        THEN threshold_ms[1]
        ELSE default_threshold(endpoint.name)

\* The endpoint names: the words of a name, in this order, joined by spaces.
NameWords ==
    << <<"D", "a", "s", "h", "b", "o", "a", "r", "d">>,
       <<"S", "t", "u", "d", "e", "n", "t">>,
       <<"L", "i", "s", "t">>,
       <<"D", "E", "T", "A", "I", "L", "S">>,
       <<"c", "o", "u", "r", "s", "e">>,
       <<"A", "P", "I">>,
       <<"X">> >>

RECURSIVE JoinWords(_, _)
JoinWords(S, k) ==
    IF k > Len(NameWords) THEN <<>>
    ELSE LET rest == JoinWords(S, k + 1)
         IN  IF k \notin S THEN rest
             ELSE IF rest = <<>> THEN NameWords[k]
             ELSE NameWords[k] \o <<" ">> \o rest

EndpointNames == {JoinWords(S, 1) : S \in SUBSET (1..Len(NameWords))}

\* threshold_ms is missing, 0 or a number of milliseconds
ThresholdValues == {<<>>, <<0>>, <<1200>>}

DefaultInit ==
    /\ NoRuns
    /\ res = Off
    /\ stat = Off
    /\ agg = Off
    /\ PartsOff
    /\ \E n \in EndpointNames, t \in ThresholdValues :
         dflt = [phase |-> "endpoint",
                 endpoint |-> [name |-> n, threshold_ms |-> t]]

\* one turn of the loop over routes_config['endpoints']
set_threshold ==
    /\ dflt.phase = "endpoint"
    /\ dflt' = [phase |-> "set", endpoint |-> dflt.endpoint,
                threshold |-> endpoint_threshold(dflt.endpoint)]
    /\ UNCHANGED <<runVars, res, stat, agg, partVars>>

DefaultNext == set_threshold

DefaultSpec == DefaultInit /\ [][DefaultNext]_vars

(***************************************************************************)
(* Statistics (Generate_Report.py l.169-178, l.210).  Durations are binary *)
(* floating-point numbers: the result of every multiplication, addition    *)
(* and division is rounded to the nearest number of FloatBits significant  *)
(* bits, ties to even.  The model's floats have a short significand and a  *)
(* smallest spacing of 1, so that every float is an integer.               *)
(***************************************************************************)
\* significant bits of a float (a double has 53)
FloatBits == 13
\* length of the longest sample
MaxSamples == 101

RECURSIVE Pow2(_)
Pow2(k) == IF k = 0 THEN 1 ELSE 2 * Pow2(k - 1)

\* the spacing of the floats around num/den: the least power of two u with
\* num/den < 2^FloatBits * u
RECURSIVE UlpFrom(_, _, _)
UlpFrom(num, den, u) ==
    IF num < Pow2(FloatBits) * u * den THEN u ELSE UlpFrom(num, den, 2 * u)

\* the float nearest to num/den, ties to even
Round(num, den) ==
    LET u == UlpFrom(num, den, 1)
        d == den * u
        q == num \div d
        r == num % d
    IN  (IF 2 * r > d \/ (2 * r = d /\ q % 2 = 1) THEN q + 1 ELSE q) * u

\* float arithmetic: a * b, a + b, a / b
FMul(a, b) == Round(a * b, 1)
FAdd(a, b) == Round(a + b, 1)
FDiv(a, b) == Round(a, b)

RECURSIVE SumSeq(_)
SumSeq(q) == IF q = <<>> THEN 0 ELSE Head(q) + SumSeq(Tail(q))

Range(q) == {q[i] : i \in 1..Len(q)}

\* sorted(data)[k - 1]
Nth(data, k) ==
    CHOOSE v \in Range(data) :
        /\ Cardinality({i \in 1..Len(data) : data[i] < v}) < k
        /\ k <= Cardinality({i \in 1..Len(data) : data[i] <= v})

\* min(data), max(data)
Min(data) == Nth(data, 1)
Max(data) == Nth(data, Len(data))

\* statistics.mean: the exact sum, divided and rounded once
Mean(data) == FDiv(SumSeq(data), Len(data))

\* statistics.median
Median(data) ==
    LET n == Len(data)
    IN  IF n % 2 = 1 THEN Nth(data, n \div 2 + 1)
        ELSE FDiv(FAdd(Nth(data, n \div 2), Nth(data, n \div 2 + 1)), 2)

\* statistics.quantiles(data, n=n)[i - 1], method 'exclusive'
Quantile(data, n, i) ==
    LET ld == Len(data)
        m == ld + 1
        j0 == (i * m) \div n
        j == IF j0 < 1 THEN 1 ELSE IF j0 > ld - 1 THEN ld - 1 ELSE j0
        delta == i * m - j * n
    IN  FDiv(FAdd(FMul(Nth(data, j), n - delta), FMul(Nth(data, j + 1), delta)), n)

\* the 95th percentile taken as the median
p95_as_median(response_times) == Median(response_times)

\* l.177 and l.210
p95_response_time(response_times) ==
    IF Len(response_times) >= 20
    THEN Quantile(response_times, 20, 19)
    ELSE Max(response_times)

\* l.178
p99_response_time(response_times) ==
    IF Len(response_times) >= 100
    THEN Quantile(response_times, 100, 99)
    ELSE Max(response_times)

\* the statistics of l.173-178
statistics_of(response_times) ==
    [avg_response_time |-> Mean(response_times),
     min_response_time |-> Min(response_times),
     max_response_time |-> Max(response_times),
     p50_response_time |-> Median(response_times),
     p95_response_time |-> p95_response_time(response_times),
     p99_response_time |-> p99_response_time(response_times)]

\* The samples: one or two distinct durations, the larger ones first.
SampleValues == {4096, 5255, 5273}

\* t[1] times the duration t[3], then t[2] times the smaller duration t[4]
SampleShapes ==
    {t \in (0..MaxSamples) \X (0..MaxSamples) \X SampleValues \X SampleValues :
        t[1] + t[2] \in 1..MaxSamples /\ t[4] < t[3]}

SampleLists ==
    {[i \in 1..(t[1] + t[2]) |-> IF i <= t[1] THEN t[3] ELSE t[4]] :
        t \in SampleShapes}

StatsInit ==
    /\ NoRuns
    /\ res = Off
    /\ dflt = Off
    /\ agg = Off
    /\ PartsOff
    /\ \E l \in SampleLists :
         stat = [phase |-> "sample", response_times |-> l]

\* stats = {...}
calculate_statistics ==
    /\ stat.phase = "sample"
    /\ stat' = [phase |-> "stats", response_times |-> stat.response_times,
                stats |-> statistics_of(stat.response_times)]
    /\ UNCHANGED <<runVars, res, dflt, agg, partVars>>

StatsNext == calculate_statistics

StatsSpec == StatsInit /\ [][StatsNext]_vars

(***************************************************************************)
(* The analysis of one telemetry file (Generate_Report.py l.64-225) and    *)
(* the endpoint rows of the report (l.425-444).  A line is described by    *)
(* what the loop body tests of it; agg holds the locals of the function.   *)
(***************************************************************************)
\* number of lines of the longest telemetry file
MaxFileLines == 3

Digits == <<"0", "1", "2", "3", "4", "5", "6", "7", "8", "9">>

IsDigit(c) == \E i \in 1..Len(Digits) : Digits[i] = c

DigitValue(c) == (CHOOSE i \in 1..Len(Digits) : Digits[i] = c) - 1

RECURSIVE DecimalValue(_)
DecimalValue(s) ==
    IF s = <<>> THEN 0
    ELSE 10 * DecimalValue(SubSeq(s, 1, Len(s) - 1)) + DigitValue(s[Len(s)])

\* int(status) of a string: <<n>>, or <<>> when it raises ValueError
ParseInt(s) ==
    IF s # <<>> /\ \A i \in 1..Len(s) : IsDigit(s[i])
    THEN <<DecimalValue(s)>>
    ELSE <<>>

\* The timestamps of the points: 0, 0.5 and 1 seconds into the minute.
T0 == <<"0", "0", "Z">>
T05 == <<"0", "0", ".", "5", "Z">>
T1 == <<"0", "1", "Z">>

\* A Duration point of value 130 with an empty tag mapping.  json: the
\* line is not JSON, is JSON but no object, or is an object; data: the
\* 'data' field is missing, is no object, or is an object; value: <<v>>
\* for a number, <<>> for a value that is no number; tags_kind: 'null'
\* for "tags": null; url_number: the URL tag is a number, not a string.
PointLine ==
    [json |-> "object", metric |-> "http_req_duration", data |-> "object",
     value |-> <<130>>, tags_kind |-> "mapping", tags |-> <<>>,
     url_number |-> FALSE, time |-> T0]

RouteX == <<"X">>
StudentListAPI == JoinWords({2, 3, 6}, 1)
Status200 == <<"2", "0", "0">>
Status500 == <<"5", "0", "0">>

\* a Duration point of endpoint X
Duration(value, status) ==
    [PointLine EXCEPT !.value = <<value>>,
                      !.tags = [route |-> RouteX, status |-> status]]

TelemetryLines ==
    {[PointLine EXCEPT !.json = "malformed"],
     [PointLine EXCEPT !.json = "nonobject"],
     [PointLine EXCEPT !.metric = "other"],
     [PointLine EXCEPT !.metric = "vus", !.value = <<3>>],
     [PointLine EXCEPT !.data = "missing"],
     [PointLine EXCEPT !.data = "nonobject"],
     [PointLine EXCEPT !.tags_kind = "null"],
     [PointLine EXCEPT !.value = <<>>],
     [PointLine EXCEPT !.value = <<0>>],
     Duration(130, Status200),
     Duration(5000, Status500),
     Duration(700, <<"6", "0", "0">>),
     Duration(900, <<"4">>),
     [PointLine EXCEPT !.url_number = TRUE, !.tags = [status |-> Status500]],
     [PointLine EXCEPT !.value = <<3000>>,
                       !.tags = [name |-> StudentListAPI,
                                 status |-> <<"a", "b", "c">>]],
     [PointLine EXCEPT !.value = <<2000>>, !.tags = [url |-> <<"h", "/", "s">>]]}

\* Scenario A: five durations of endpoint X, the fourth with status 500
ScenarioA ==
    <<Duration(100, Status200), Duration(120, Status200),
      Duration(110, Status200), Duration(5000, Status500),
      Duration(130, Status200)>>

TelemetryFiles ==
    UNION {[1..n -> TelemetryLines] : n \in 0..MaxFileLines} \cup {ScenarioA}

\* no endpoints file, or one endpoint without a threshold of its own
AnalysisConfigs ==
    {[has |-> FALSE, endpoints |-> <<>>],
     [has |-> TRUE,
      endpoints |-> <<[url |-> <<"/", "s">>, method |-> <<"G", "E", "T">>,
                       name |-> StudentListAPI, threshold_ms |-> <<>>]>>]}

AnalysisInit ==
    /\ NoRuns
    /\ res = Off
    /\ dflt = Off
    /\ stat = Off
    /\ PartsOff
    /\ \E f \in TelemetryFiles, c \in AnalysisConfigs :
         agg = [phase |-> "reading", file |-> f, routes_config |-> c,
                line_count |-> 0, response_times |-> <<>>,
                timeline_data |-> <<>>, error_count |-> 0,
                total_requests |-> 0, endpoint_stats |-> <<>>,
                vus_timeline |-> <<>>, exception |-> "none",
                stats |-> <<>>, rows |-> <<>>, error_rates |-> <<>>]

\* an exception that no except clause of the function catches
Raised(a, e) == [a EXCEPT !.phase = "raised", !.exception = e]

\* the exception the chain that names the endpoint raises for a URL tag
\* that is a number: '...' in url (l.58) is a TypeError, url.split (l.139)
\* an AttributeError
resolve_raises(line, config) ==
    IF ~line.url_number \/ Get(line.tags, "route", <<>>) # <<>> THEN "none"
    ELSE IF config.has /\ config.endpoints # <<>> THEN "TypeError"
    ELSE IF Get(line.tags, "name", <<>>) # <<>> THEN "none"
    ELSE "AttributeError"

\* defaultdict: the entry of an endpoint that has none yet
NewEndpoint == [response_times |-> <<>>, timeline |-> <<>>, errors |-> 0, count |-> 0]

\* the point counted for its endpoint only after its status is read
add_point_counting_last(a, line) ==
    LET value == line.value[1]
        a1 == [a EXCEPT !.response_times = Append(@, value),
                        !.total_requests = @ + 1,
                        !.timeline_data =
                            Append(@, [timestamp |-> line.time,
                                       response_time |-> value,
                                       tags |-> line.tags])]
        status == Get(line.tags, "status", Status200)
        raises == resolve_raises(line, a.routes_config)
        endpoint == resolve(line.tags, a.routes_config)
        data == Get(a.endpoint_stats, endpoint, NewEndpoint)
        a2 == [a1 EXCEPT !.endpoint_stats =
                  Put(@, endpoint,
                      [data EXCEPT !.response_times = Append(@, value),
                                   !.timeline =
                                       Append(@, [timestamp |-> line.time,
                                                  response_time |-> value])])]
        a3 == [a2 EXCEPT !.endpoint_stats[endpoint].count = @ + 1]
        code == ParseInt(status)
    IN  IF line.tags_kind = "null" THEN Raised(a1, "AttributeError")
        ELSE IF raises = "TypeError" THEN a1
        ELSE IF raises = "AttributeError" THEN Raised(a1, "AttributeError")
        ELSE IF code = <<>> THEN a2
        ELSE IF code[1] >= 400
        THEN [a3 EXCEPT !.error_count = @ + 1,
                        !.endpoint_stats[endpoint].errors = @ + 1]
        ELSE a3

\* l.111-153: a Duration point whose value is positive
add_point(a, line) ==
    LET value == line.value[1]
        a1 == [a EXCEPT !.response_times = Append(@, value),
                        !.total_requests = @ + 1,
                        !.timeline_data =
                            Append(@, [timestamp |-> line.time,
                                       response_time |-> value,
                                       tags |-> line.tags])]
        status == Get(line.tags, "status", Status200)
        raises == resolve_raises(line, a.routes_config)
        endpoint == resolve(line.tags, a.routes_config)
        data == Get(a.endpoint_stats, endpoint, NewEndpoint)
        a2 == [a1 EXCEPT !.endpoint_stats =
                  Put(@, endpoint,
                      [data EXCEPT !.response_times = Append(@, value),
                                   !.timeline =
                                       Append(@, [timestamp |-> line.time,
                                                  response_time |-> value]),
                                   !.count = @ + 1])]
        code == ParseInt(status)
    IN  IF line.tags_kind = "null" THEN Raised(a1, "AttributeError")
        ELSE IF raises = "TypeError" THEN a1
        ELSE IF raises = "AttributeError" THEN Raised(a1, "AttributeError")
        ELSE IF code = <<>> THEN a2
        ELSE IF code[1] >= 400
        THEN [a2 EXCEPT !.error_count = @ + 1,
                        !.endpoint_stats[endpoint].errors = @ + 1]
        ELSE a2

\* one turn of the loop over the lines, l.88-156
analyze_line ==
    /\ agg.phase = "reading"
    /\ agg.line_count < Len(agg.file)
    /\ LET line == agg.file[agg.line_count + 1]
           a == [agg EXCEPT !.line_count = @ + 1]
       IN  agg' =
             IF line.json # "object" \/ line.metric = "other" THEN a
             ELSE IF line.data = "missing" THEN Raised(a, "KeyError")
             ELSE IF line.data = "nonobject" THEN Raised(a, "AttributeError")
             ELSE IF line.metric = "vus"
             THEN [a EXCEPT !.vus_timeline = Append(@, line.value)]
             ELSE IF line.value = <<>> THEN a
             ELSE IF line.value[1] > 0 THEN add_point(a, line)
             ELSE a
    /\ UNCHANGED <<runVars, res, dflt, stat, partVars>>

\* the thresholds without any entry
thresholds_none(config) == <<>>

\* thresholds after the loop of l.185-205
RECURSIVE thresholds_upto(_, _)
thresholds_upto(config, k) ==
    IF k = 0 THEN <<>>
    ELSE Put(thresholds_upto(config, k - 1), config.endpoints[k].name,
             endpoint_threshold(config.endpoints[k]))

thresholds_of(config) ==
    IF config.has THEN thresholds_upto(config, Len(config.endpoints)) ELSE <<>>

\* l.207-223: the p95 and the threshold of one endpoint; None is <<>>
endpoint_result(endpoint, data, thresholds) ==
    IF data.response_times # <<>>
    THEN LET p95 == p95_response_time(data.response_times)
         IN  IF endpoint \in DOMAIN thresholds
             THEN data @@ [p95 |-> p95, threshold |-> <<thresholds[endpoint]>>,
                           threshold_passed |-> p95 <= thresholds[endpoint]]
             ELSE data @@ [p95 |-> p95, threshold |-> <<>>,
                           threshold_passed |-> TRUE]
    ELSE data @@ [p95 |-> 0, threshold |-> <<>>, threshold_passed |-> TRUE]

\* a quotient times 100, kept as a fraction
Percent(part, whole) == [num |-> part * 100, den |-> whole]

\* the end of the file, l.162-225: None without durations, else stats
finish_analysis ==
    /\ agg.phase = "reading"
    /\ agg.line_count = Len(agg.file)
    /\ agg' =
         IF agg.response_times = <<>>
         THEN [agg EXCEPT !.phase = "none"]
         ELSE LET thresholds == thresholds_of(agg.routes_config)
              IN  [agg EXCEPT
                     !.phase = "stats",
                     !.stats =
                         [total_requests |-> agg.total_requests,
                          error_count |-> agg.error_count,
                          error_rate |->
                              IF agg.total_requests > 0
                              THEN Percent(agg.error_count, agg.total_requests)
                              ELSE Percent(0, 1)]
                             @@ statistics_of(agg.response_times),
                     !.endpoint_stats =
                         [e \in DOMAIN agg.endpoint_stats |->
                             endpoint_result(e, agg.endpoint_stats[e], thresholds)]]
    /\ UNCHANGED <<runVars, res, dflt, stat, partVars>>

(***************************************************************************)
(* The chart series (Generate_Report.py l.241-295).  A timestamp is the    *)
(* RFC 3339 string of the telemetry, here its seconds, an optional         *)
(* fraction and the zone 'Z' (date, hour and minute are the same for all   *)
(* points); the load tool writes fractions without trailing zeros.         *)
(***************************************************************************)
\* number of points of the longest timeline
MaxPoints == 52
\* number of its points that arrive last, with another timestamp
MaxLate == 6
\* window_size = 50, l.250
window_size == 50

\* the code point of a character of a timestamp
CharCode(c) ==
    CASE c = "+" -> 43 [] c = "-" -> 45 [] c = "." -> 46 [] c = ":" -> 58
      [] c = "T" -> 84 [] c = "Z" -> 90
      [] OTHER -> 48 + DigitValue(c)

\* s < t for strings
StrLess(s, t) ==
    \E i \in 1..Len(t) :
        /\ \A j \in 1..(i - 1) : j <= Len(s) /\ s[j] = t[j]
        /\ i > Len(s) \/ CharCode(s[i]) < CharCode(t[i])

\* datetime.fromisoformat(ts.replace('Z', '+00:00')).timestamp(), in
\* hundredths of a second
TimeOf(ts) ==
    LET dots == {i \in 1..Len(ts) : ts[i] = "."}
        zed == CHOOSE i \in 1..Len(ts) : ts[i] = "Z"
        dot == IF dots = {} THEN zed ELSE CHOOSE i \in dots : TRUE
        fraction == IF dots = {} THEN <<>> ELSE SubSeq(ts, dot + 1, zed - 1)
    IN  100 * DecimalValue(SubSeq(ts, 1, dot - 1))
          + (IF fraction = <<>> THEN 0
             ELSE IF Len(fraction) = 1 THEN 10 * DecimalValue(fraction)
             ELSE DecimalValue(SubSeq(fraction, 1, 2)))

\* time_obj.strftime('%H:%M:%S'): the whole seconds
LabelOf(ts) == TimeOf(ts) \div 100

\* |a - b|
AbsDiff(a, b) == IF a < b THEN b - a ELSE a - b

\* p put behind the points of s whose timestamp string is not greater
InsertByTimestamp(s, p) ==
    LET at == Cardinality({j \in 1..Len(s) : ~StrLess(p.timestamp, s[j].timestamp)})
    IN  SubSeq(s, 1, at) \o <<p>> \o SubSeq(s, at + 1, Len(s))

RECURSIVE SortedPrefix(_, _)
SortedPrefix(timeline_data, n) ==
    IF n = 0 THEN <<>>
    ELSE InsertByTimestamp(SortedPrefix(timeline_data, n - 1), timeline_data[n])

\* sorted(stats['timeline_data'], key=lambda x: x['timestamp']): by the
\* string, points of equal strings in arrival order
sorted_timeline(timeline_data) == SortedPrefix(timeline_data, Len(timeline_data))

\* the window as far after i as before i
window_through(sorted, i) ==
    LET start_idx == IF i - window_size \div 2 > 0 THEN i - window_size \div 2 ELSE 0
        end_idx == IF i + window_size \div 2 + 1 < Len(sorted)
                   THEN i + window_size \div 2 + 1 ELSE Len(sorted)
    IN  SubSeq(sorted, start_idx + 1, end_idx)

\* sorted_timeline[start_idx:end_idx], l.259-261; i counts from 0
window_data(sorted, i) ==
    LET start_idx == IF i - window_size \div 2 > 0 THEN i - window_size \div 2 ELSE 0
        end_idx == IF i + window_size \div 2 < Len(sorted)
                   THEN i + window_size \div 2 ELSE Len(sorted)
    IN  SubSeq(sorted, start_idx + 1, end_idx)

\* d.get('tags', {}).get('status', '200').startswith(('4', '5'))
StatusStartsWith45(d) ==
    LET status == Get(d.tags, "status", Status200)
    IN  status # <<>> /\ status[1] \in {"4", "5"}

\* round(part / whole * 100, 2) in hundredths, ties to even
RoundedPercent(part, whole) ==
    LET q == (part * 10000) \div whole
        r == (part * 10000) % whole
    IN  IF 2 * r > whole \/ (2 * r = whole /\ q % 2 = 1) THEN q + 1 ELSE q

\* l.263-266
error_rate_at(sorted, i) ==
    LET window == window_data(sorted, i)
        total_in_window == Len(window)
        errors_in_window ==
            Cardinality({j \in 1..Len(window) : StatusStartsWith45(window[j])})
    IN  IF total_in_window > 0
        THEN RoundedPercent(errors_in_window, total_in_window)
        ELSE 0

\* the gauge value of the first gauge point
first_vus(vus_timeline, timestamp) ==
    IF vus_timeline = <<>> THEN 0 ELSE vus_timeline[1].vus

\* l.273-295: vus_map keeps the last value of each timestamp, its keys in
\* the order of their first insertion; min returns the first closest key
closest_vus(vus_timeline, timestamp) ==
    LET n == Len(vus_timeline)
        keys == {vus_timeline[j].timestamp : j \in 1..n}
        vus_map == [k \in keys |->
                       vus_timeline[CHOOSE j \in 1..n :
                           /\ vus_timeline[j].timestamp = k
                           /\ \A m \in (j + 1)..n : vus_timeline[m].timestamp # k].vus]
        first == [k \in keys |->
                     CHOOSE j \in 1..n :
                         /\ vus_timeline[j].timestamp = k
                         /\ \A m \in 1..(j - 1) : vus_timeline[m].timestamp # k]
        distance == [k \in keys |-> AbsDiff(TimeOf(k), TimeOf(timestamp))]
        closest_timestamp ==
            CHOOSE k \in keys :
                \A x \in keys :
                    \/ distance[k] < distance[x]
                    \/ distance[k] = distance[x] /\ first[k] <= first[x]
    IN  IF keys = {} THEN 0
        ELSE IF timestamp \in keys THEN vus_map[timestamp]
        ELSE vus_map[closest_timestamp]

\* the indexes i of enumerate(sorted_timeline) with i % 5 == 0, in order
SampledIndexes(n) == [k \in 1..((n + 4) \div 5) |-> 5 * (k - 1)]

\* the label given whenever the success rate allows it
status_text_by_rate(success_rate, threshold_passed) ==
    IF success_rate.num >= 95 * success_rate.den THEN "Excellent"
    ELSE IF success_rate.num >= 90 * success_rate.den THEN "Good"
    ELSE "Needs Attention"

\* l.435-444
status_text(success_rate, threshold_passed) ==
    IF success_rate.num >= 95 * success_rate.den /\ threshold_passed
    THEN "Excellent"
    ELSE IF success_rate.num >= 90 * success_rate.den /\ threshold_passed
    THEN "Good"
    ELSE "Needs Attention"

\* l.427-444: the success rate and the label of one endpoint row
endpoint_row(data) ==
    LET success_rate == Percent(data.count - data.errors, data.count)
    IN  [success_rate |-> success_rate,
         status_text |-> status_text(success_rate, data.threshold_passed)]

\* main, l.735-739, the error rates of the timeline, l.246-266, and the
\* endpoint rows, l.425-444
generate_html_report_with_charts ==
    /\ agg.phase = "stats"
    /\ \E sorted \in {sorted_timeline(agg.timeline_data)} :
       LET sampled == SampledIndexes(Len(sorted))
       IN  agg' =
             [agg EXCEPT
                !.phase = "reported",
                !.error_rates =
                    [k \in DOMAIN sampled |-> error_rate_at(sorted, sampled[k])],
                !.rows =
                    [e \in {x \in DOMAIN agg.endpoint_stats :
                                agg.endpoint_stats[x].count > 0} |->
                        endpoint_row(agg.endpoint_stats[e])]]
    /\ UNCHANGED <<runVars, res, dflt, stat, partVars>>

AnalysisNext ==
    \/ analyze_line
    \/ finish_analysis
    \/ generate_html_report_with_charts

AnalysisSpec == AnalysisInit /\ [][AnalysisNext]_vars

(***************************************************************************)
(* One endpoint row of the report (Generate_Report.py l.425-444), for the  *)
(* counters an endpoint can have.                                          *)
(***************************************************************************)
\* largest number of points of an endpoint
MaxCount == 20

RowInit ==
    /\ NoRuns
    /\ res = Off
    /\ dflt = Off
    /\ stat = Off
    /\ agg = Off
    /\ tl = Off
    /\ trk = Off
    /\ loader = Off
    /\ \E count \in 0..MaxCount, errors \in 0..MaxCount, passed \in BOOLEAN :
         /\ errors <= count
         /\ row = [phase |-> "data",
                   data |-> [count |-> count, errors |-> errors,
                             threshold_passed |-> passed]]

\* if data['count'] > 0: the row is written
write_row ==
    /\ row.phase = "data"
    /\ row.data.count > 0
    /\ row' = [phase |-> "row", data |-> row.data, cells |-> endpoint_row(row.data)]
    /\ UNCHANGED <<runVars, res, dflt, stat, agg, tl, trk, loader>>

\* an endpoint without points has no row
skip_row ==
    /\ row.phase = "data"
    /\ row.data.count = 0
    /\ row' = [phase |-> "skipped", data |-> row.data]
    /\ UNCHANGED <<runVars, res, dflt, stat, agg, tl, trk, loader>>

RowNext == write_row \/ skip_row

RowSpec == RowInit /\ [][RowNext]_vars

(***************************************************************************)
(* The inputs of the chart series.                                         *)
(***************************************************************************)
TimelinePoint(timestamp, response_time, status) ==
    [timestamp |-> timestamp, response_time |-> response_time,
     tags |-> [status |-> status]]

\* t[1] points of timestamp t[3][1] arrive, then t[2] points of
\* timestamp t[3][2]; t[4] gives the status of the former and the latter
TimelineShapes ==
    (0..MaxPoints) \X (0..MaxLate)
        \X {<<T0, T05>>, <<T1, T05>>, <<T05, T1>>}
        \X {<<Status200, Status500>>, <<Status500, Status200>>}

Timeline(t) ==
    [i \in 1..(t[1] + t[2]) |->
        IF i <= t[1] THEN TimelinePoint(t[3][1], 10, t[4][1])
        ELSE TimelinePoint(t[3][2], 20, t[4][2])]

GaugePoint(timestamp, vus) == [timestamp |-> timestamp, vus |-> vus]

\* no gauge point, two, or three of which two have the same timestamp
GaugeTimelines ==
    {<<>>,
     <<GaugePoint(T0, 1), GaugePoint(T1, 2)>>,
     <<GaugePoint(T0, 1), GaugePoint(T05, 2), GaugePoint(T0, 4)>>}

ChartInit ==
    /\ NoRuns
    /\ res = Off
    /\ dflt = Off
    /\ stat = Off
    /\ agg = Off
    /\ row = Off
    /\ trk = Off
    /\ loader = Off
    /\ \E t \in TimelineShapes, g \in GaugeTimelines :
         /\ t[1] + t[2] \in 1..MaxPoints
         /\ tl = [phase |-> "stats", timeline_data |-> Timeline(t),
                  vus_timeline |-> g]

\* l.241-295: the series of the charts
prepare_charts ==
    /\ tl.phase = "stats"
    /\ \E sorted \in {sorted_timeline(tl.timeline_data)} :
       LET sampled == SampledIndexes(Len(sorted))
       IN  tl' = [phase |-> "charts",
                  timeline_data |-> tl.timeline_data,
                  vus_timeline |-> tl.vus_timeline,
                  sorted_timeline |-> sorted,
                  timeline_labels |->
                      [k \in DOMAIN sampled |-> LabelOf(sorted[sampled[k] + 1].timestamp)],
                  timeline_response_times |->
                      [k \in DOMAIN sampled |-> sorted[sampled[k] + 1].response_time],
                  error_rates |->
                      [k \in DOMAIN sampled |-> error_rate_at(sorted, sampled[k])],
                  vus_labels |->
                      [k \in DOMAIN sampled |-> LabelOf(sorted[sampled[k] + 1].timestamp)],
                  vus_values |->
                      [k \in DOMAIN sampled |->
                          closest_vus(tl.vus_timeline, sorted[sampled[k] + 1].timestamp)]]
    /\ UNCHANGED <<runVars, res, dflt, stat, agg, row, trk, loader>>

ChartNext == prepare_charts

ChartSpec == ChartInit /\ [][ChartNext]_vars

(***************************************************************************)
(* The tracker of the output of the load tool (app.py l.184-243).          *)
(***************************************************************************)
\* number of output lines of the longest run
MaxOutput == 3
\* number of stages of a custom configuration
CustomStages == 2
\* the default stages count, l.193
DefaultStages == 5

VUs ==
    <<"V", "U", "s">>

Running ==
    <<"r", "u", "n", "n", "i", "n", "g">>

RampingUp ==
    <<"r", "a", "m", "p", "i", "n", "g", " ", "u", "p">>

RampingDown ==
    <<"r", "a", "m", "p", "i", "n", "g", " ", "d", "o", "w", "n">>

StayingAt ==
    <<"s", "t", "a", "y", "i", "n", "g", " ", "a", "t">>

\* \s
IsSpace(c) == c \in {" ", "\t", "\n"}

\* the end of the longest run of digits of line from position s, s - 1
\* when there is none
DigitsEnd(line, s) ==
    LET ends == {e \in s..Len(line) : \A j \in s..e : IsDigit(line[j])}
    IN  IF ends = {} THEN s - 1 ELSE CHOOSE e \in ends : \A x \in ends : x <= e

\* the same of a run of white space
SpacesEnd(line, s) ==
    LET ends == {e \in s..Len(line) : \A j \in s..e : IsSpace(line[j])}
    IN  IF ends = {} THEN s - 1 ELSE CHOOSE e \in ends : \A x \in ends : x <= e

\* word is in line from position s
WordAt(line, s, word) ==
    s + Len(word) - 1 <= Len(line) /\ SubSeq(line, s, s + Len(word) - 1) = word

\* the least member of a set of positions
Leftmost(S) == CHOOSE s \in S : \A x \in S : s <= x

\* \s+VUs from position s
SpacesThenVUs(line, s) ==
    /\ SpacesEnd(line, s) >= s
    /\ WordAt(line, SpacesEnd(line, s) + 1, VUs)

\* vus_pattern.search(line), (\d+)/(\d+)\s+VUs: <<>> for None, else the
\* two groups of the leftmost match
vus_pattern_search(line) ==
    LET starts ==
            {s \in 1..Len(line) :
                LET e1 == DigitsEnd(line, s)
                    e2 == DigitsEnd(line, e1 + 2)
                IN  /\ e1 >= s
                    /\ e1 + 1 <= Len(line)
                    /\ line[e1 + 1] = "/"
                    /\ e2 >= e1 + 2
                    /\ SpacesThenVUs(line, e2 + 1)}
        s == Leftmost(starts)
        e1 == DigitsEnd(line, s)
    IN  IF starts = {} THEN <<>>
        ELSE <<SubSeq(line, s, e1), SubSeq(line, e1 + 2, DigitsEnd(line, e1 + 2))>>

\* simple_vus_pattern.search(line), (\d+)\s+VUs
simple_vus_pattern_search(line) ==
    LET starts ==
            {s \in 1..Len(line) :
                /\ DigitsEnd(line, s) >= s
                /\ SpacesThenVUs(line, DigitsEnd(line, s) + 1)}
        s == Leftmost(starts)
    IN  IF starts = {} THEN <<>> ELSE <<SubSeq(line, s, DigitsEnd(line, s))>>

\* progress_pattern.search(line), (\d+)%
progress_pattern_search(line) ==
    LET starts ==
            {s \in 1..Len(line) :
                /\ DigitsEnd(line, s) >= s
                /\ WordAt(line, DigitsEnd(line, s) + 1, <<"%">>)}
        s == Leftmost(starts)
    IN  IF starts = {} THEN <<>> ELSE <<SubSeq(line, s, DigitsEnd(line, s))>>

\* stage_pattern.search(line), running\s+\(([^)]+)\)
stage_pattern_search(line) ==
    LET Open(s) == SpacesEnd(line, s + Len(Running)) + 1
        Close(s) == Leftmost({c \in (Open(s) + 1)..Len(line) : line[c] = ")"})
        starts ==
            {s \in 1..Len(line) :
                /\ WordAt(line, s, Running)
                /\ SpacesEnd(line, s + Len(Running)) >= s + Len(Running)
                /\ WordAt(line, Open(s), <<"(">>)
                /\ \E c \in (Open(s) + 2)..Len(line) :
                      /\ line[c] = ")"
                      /\ \A j \in (Open(s) + 1)..(c - 1) : line[j] # ")"}
        s == Leftmost(starts)
    IN  IF starts = {} THEN <<>>
        ELSE <<SubSeq(line, Open(s) + 1, Close(s) - 1)>>

\* line.strip()
RECURSIVE Strip(_)
Strip(line) ==
    IF line # <<>> /\ IsSpace(Head(line)) THEN Strip(Tail(line))
    ELSE IF line # <<>> /\ IsSpace(line[Len(line)])
         THEN Strip(SubSeq(line, 1, Len(line) - 1))
    ELSE line

\* the values of test_status[test_id]['stage']
StageText(text) == [kind |-> "text", text |-> text]
RunningFor(running_time) == [kind |-> "running", running_time |-> running_time]
StageOf(current_stage, total_stages, phase) ==
    [kind |-> "stage", current_stage |-> current_stage,
     total_stages |-> total_stages, phase |-> phase]

\* the 'n VUs' form tried before the 'a/b VUs' form
parse_vus_simple_first(t, line) ==
    LET vus_match == vus_pattern_search(line)
        simple_match == simple_vus_pattern_search(line)
    IN  IF simple_match # <<>>
        THEN [t EXCEPT !.current_vus = DecimalValue(simple_match[1]),
                       !.status.vus = <<DecimalValue(simple_match[1])>>]
        ELSE t

\* l.207-219
parse_vus(t, line) ==
    LET vus_match == vus_pattern_search(line)
        simple_match == simple_vus_pattern_search(line)
    IN  IF vus_match # <<>>
        THEN [t EXCEPT !.current_vus = DecimalValue(vus_match[1]),
                       !.target_vus = DecimalValue(vus_match[2]),
                       !.status.vus = <<DecimalValue(vus_match[1])>>,
                       !.status.target_vus = <<DecimalValue(vus_match[2])>>]
        ELSE IF simple_match # <<>> /\ IsSubstr(VUs, line)
        THEN [t EXCEPT !.current_vus = DecimalValue(simple_match[1]),
                       !.status.vus = <<DecimalValue(simple_match[1])>>]
        ELSE t

\* l.222-225
parse_progress(t, line) ==
    LET progress_match == progress_pattern_search(line)
    IN  IF progress_match # <<>>
        THEN [t EXCEPT !.progress_percent = DecimalValue(progress_match[1]),
                       !.status.progress_percent = <<DecimalValue(progress_match[1])>>]
        ELSE t

\* the running time without the label
parse_running_time_only(t, line) ==
    LET stage_match == stage_pattern_search(line)
    IN  IF stage_match # <<>>
        THEN [t EXCEPT !.status.running_time = <<stage_match[1]>>]
        ELSE t

\* l.228-232
parse_running(t, line) ==
    LET stage_match == stage_pattern_search(line)
    IN  IF stage_match # <<>>
        THEN [t EXCEPT !.status.running_time = <<stage_match[1]>>,
                       !.status.stage = RunningFor(stage_match[1])]
        ELSE t

\* the stage counted up to total_stages only
detect_stage_capped(t, line) ==
    LET lower == Lower(Strip(line))
    IN  IF IsSubstr(RampingUp, lower) /\ t.current_stage < t.total_stages
        THEN [t EXCEPT !.current_stage = @ + 1,
                       !.status.current_stage = <<t.current_stage + 1>>,
                       !.status.total_stages = <<t.total_stages>>,
                       !.status.stage =
                           StageOf(t.current_stage + 1, t.total_stages, "Ramping up")]
        ELSE IF IsSubstr(RampingDown, lower)
        THEN [t EXCEPT !.status.stage =
                           StageOf(t.current_stage, t.total_stages, "Ramping down")]
        ELSE IF IsSubstr(StayingAt, lower)
        THEN [t EXCEPT !.status.stage =
                           StageOf(t.current_stage, t.total_stages, "Steady state")]
        ELSE t

\* the three phrases tried one after the other, each on its own
detect_stage_each(t, line) ==
    LET lower == Lower(Strip(line))
        up == IF IsSubstr(RampingUp, lower)
              THEN [t EXCEPT !.current_stage = @ + 1,
                             !.status.current_stage = <<t.current_stage + 1>>,
                             !.status.total_stages = <<t.total_stages>>,
                             !.status.stage =
                                 StageOf(t.current_stage + 1, t.total_stages, "Ramping up")]
              ELSE t
        down == IF IsSubstr(RampingDown, lower)
                THEN [up EXCEPT !.status.stage =
                                   StageOf(up.current_stage, up.total_stages, "Ramping down")]
                ELSE up
    IN  IF IsSubstr(StayingAt, lower)
        THEN [down EXCEPT !.status.stage =
                             StageOf(down.current_stage, down.total_stages, "Steady state")]
        ELSE down

\* l.235-243
detect_stage(t, line) ==
    LET lower == Lower(Strip(line))
    IN  IF IsSubstr(RampingUp, lower)
        THEN [t EXCEPT !.current_stage = @ + 1,
                       !.status.current_stage = <<t.current_stage + 1>>,
                       !.status.total_stages = <<t.total_stages>>,
                       !.status.stage =
                           StageOf(t.current_stage + 1, t.total_stages, "Ramping up")]
        ELSE IF IsSubstr(RampingDown, lower)
        THEN [t EXCEPT !.status.stage =
                           StageOf(t.current_stage, t.total_stages, "Ramping down")]
        ELSE IF IsSubstr(StayingAt, lower)
        THEN [t EXCEPT !.status.stage =
                           StageOf(t.current_stage, t.total_stages, "Steady state")]
        ELSE t

\* l.202-243: the body of the loop for one line
consume(t, line) ==
    detect_stage(
        parse_running(
            parse_progress(
                parse_vus([t EXCEPT !.consumed = Append(@, line)], line),
                line),
            line),
        line)

\* The output lines.
\* '342/500 VUs'
LineVus ==
    <<"3", "4", "2", "/", "5", "0", "0", " ", "V", "U", "s">>

\* 'running (1m30s)'
LineRunning ==
    <<"r", "u", "n", "n", "i", "n", "g", " ", "(", "1", "m", "3", "0", "s",
      ")">>

\* '7 VUs 90%'
LineSimple ==
    <<"7", " ", "V", "U", "s", " ", "9", "0", "%">>

\* 'Ramping up'
LineUp ==
    <<"R", "a", "m", "p", "i", "n", "g", " ", "u", "p">>

\* 'ramping down'
LineDown ==
    <<"r", "a", "m", "p", "i", "n", "g", " ", "d", "o", "w", "n">>

\* 'staying at 7 VUs'
LineStay ==
    <<"s", "t", "a", "y", "i", "n", "g", " ", "a", "t", " ", "7", " ", "V",
      "U", "s">>

\* 'running (2s) ramping up, ramping down'
LineSeveral ==
    <<"r", "u", "n", "n", "i", "n", "g", " ", "(", "2", "s", ")", " ", "r",
      "a", "m", "p", "i", "n", "g", " ", "u", "p", ",", " ", "r", "a", "m",
      "p", "i", "n", "g", " ", "d", "o", "w", "n">>

\* '3 VUs 1/2 VUs'
LineTwoForms ==
    <<"3", " ", "V", "U", "s", " ", "1", "/", "2", " ", "V", "U", "s">>

\* 'ok'
LinePlain ==
    <<"o", "k">>

OutputLines ==
    {LineVus, LineRunning, LineSimple, LineUp, LineDown,
     LineStay, LineSeveral, LineTwoForms, LinePlain}

\* l.166 and l.192-197, custom_stages being None or CustomStages stages
TrackerInit ==
    /\ NoRuns
    /\ res = Off
    /\ dflt = Off
    /\ stat = Off
    /\ agg = Off
    /\ row = Off
    /\ tl = Off
    /\ loader = Off
    /\ \E total_stages \in {CustomStages, DefaultStages} :
         trk = [phase |-> "reading",
                consumed |-> <<>>,
                total_stages |-> total_stages,
                current_stage |-> 1,
                current_vus |-> 0,
                target_vus |-> 0,
                progress_percent |-> 0,
                status |-> [stage |-> StageText("Running K6 load test"),
                            vus |-> <<>>, target_vus |-> <<>>,
                            progress_percent |-> <<>>, running_time |-> <<>>,
                            current_stage |-> <<>>, total_stages |-> <<>>]]

\* l.202-243: one line of proc.stdout
track_line ==
    /\ trk.phase = "reading"
    /\ Len(trk.consumed) < MaxOutput
    /\ \E line \in OutputLines : trk' = consume(trk, line)
    /\ UNCHANGED <<runVars, res, dflt, stat, agg, row, tl, loader>>

TrackerNext == track_line

TrackerSpec == TrackerInit /\ [][TrackerNext]_vars

(***************************************************************************)
(* Loading the endpoints file (Generate_Report.py l.25-44, 69, 721).       *)
(* A file is missing, cannot be read (PermissionError), is not JSON, or    *)
(* holds a configuration.                                                  *)
(***************************************************************************)
\* the result of load_routes_config: a configuration or an exception
Loaded(config) == [raised |-> "none", config |-> config]
LoadRaises(e) == [raised |-> e, config |-> <<>>]

\* {}
EmptyConfig == [has |-> FALSE, endpoints |-> <<>>]

\* open(path) and json.load(f) of l.28-29 and l.36-37
open_and_load(file) ==
    CASE file.kind = "missing" -> LoadRaises("FileNotFoundError")
      [] file.kind = "denied" -> LoadRaises("PermissionError")
      [] file.kind = "invalid" -> LoadRaises("JSONDecodeError")
      [] OTHER -> Loaded(file.config)

\* l.25-44; files[1] is config_file, files[2] and files[3] are
\* 'dev/endpoints.json' and '../endpoints.json'
load_routes_config(files) ==
    LET first == open_and_load(files[1])
        second == open_and_load(files[2])
        third == open_and_load(files[3])
    IN  IF first.raised # "FileNotFoundError" THEN first
        ELSE IF second.raised # "FileNotFoundError" THEN second
        ELSE IF third.raised # "FileNotFoundError" THEN third
        ELSE Loaded(EmptyConfig)

ConfigFiles ==
    {[kind |-> "missing", config |-> <<>>],
     [kind |-> "denied", config |-> <<>>],
     [kind |-> "invalid", config |-> <<>>]}
        \cup {[kind |-> "json", config |-> c] : c \in AnalysisConfigs}

LoaderInit ==
    /\ NoRuns
    /\ res = Off
    /\ dflt = Off
    /\ stat = Off
    /\ agg = Off
    /\ row = Off
    /\ tl = Off
    /\ trk = Off
    /\ \E files \in [1..3 -> ConfigFiles] :
         loader = [phase |-> "main", files |-> files, exception |-> "none",
               routes_config |-> <<>>]

\* the exception leaves the program
Uncaught(e) == [loader EXCEPT !.phase = "raised", !.exception = e]

\* main, l.721: routes_config = load_routes_config(args.config)
main_load ==
    /\ loader.phase = "main"
    /\ LET loaded == load_routes_config(loader.files)
       IN  loader' = IF loaded.raised # "none" THEN Uncaught(loaded.raised)
                     ELSE [loader EXCEPT !.phase = "analyze"]
    /\ UNCHANGED <<runVars, res, dflt, stat, agg, row, tl, trk>>

\* analyze_k6_json_with_timeline, l.69, before the telemetry is read
analyze_load ==
    /\ loader.phase = "analyze"
    /\ LET loaded == load_routes_config(loader.files)
       IN  loader' = IF loaded.raised # "none" THEN Uncaught(loaded.raised)
                     ELSE [loader EXCEPT !.phase = "reading",
                                         !.routes_config = loaded.config]
    /\ UNCHANGED <<runVars, res, dflt, stat, agg, row, tl, trk>>

LoaderNext == main_load \/ analyze_load

LoaderSpec == LoaderInit /\ [][LoaderNext]_vars

(***************************************************************************)
(* Properties of the run lifecycle.                                        *)
(***************************************************************************)
Terminal(r) ==
    r \in DOMAIN test_status /\ test_status[r].status \in {"completed", "failed"}

\* the run's thread has left its function
Ended(r) == thr[r].pc \in {"done", "crashed"}

\* the load process exited with 0 or 99
ExitedOk(r) == thr[r].exit_code \in {0, 99}

\* C1: a reader that observes status 'completed' for a run also observes
\* report_file, summary_file and detailed_file, so that download_report
\* and download_results find the keys they read.
C1_CompletedHasItsFields ==
    \A r \in DOMAIN test_status :
        test_status[r].status = "completed" =>
            /\ {"report_file", "summary_file", "detailed_file"}
                   \subseteq DOMAIN get_test_status(r)
            /\ download_report(r) = "file"
            /\ view_report(r) = "file"
            /\ download_results(r, "summary") = "file"
            /\ download_results(r, "detailed") = "file"

\* C2: once an entry has status 'completed' or 'failed', no later step
\* changes any field of it.
C2_TerminalEntryImmutable ==
    [][\A r \in DOMAIN test_status :
          Terminal(r) => test_status'[r] = test_status[r]]_vars

\* C3: every relative-path operation of a run (reading its configuration,
\* launching the load process, running the report generator, locating and
\* moving its files) acts on the run's own test directory.
C3_RelativeOpsInOwnDir ==
    \A r \in Runs :
        /\ thr[r].rel \in {-1, r}
        /\ proc[r].dir \in {-1, r}

\* C4: a run whose load process exited with 0 or 99 and whose report was
\* generated ends 'completed', with thresholds_crossed true exactly when
\* the exit code was 99 and false when it was 0.
C4_SuccessCompletedWithFlag ==
    \A r \in DOMAIN test_status :
        (thr[r].pc = "done" /\ ExitedOk(r) /\ thr[r].result = "written") =>
            /\ test_status[r].status = "completed"
            /\ Has(test_status[r], "thresholds_crossed")
            /\ test_status[r].thresholds_crossed = (thr[r].exit_code = 99)

\* the last min(n, DequeMaxLen) of the lines 1..n, in emission order
TailOfOutput(n) ==
    LET k == IF n < DequeMaxLen THEN n ELSE DequeMaxLen
    IN  [i \in 1..k |-> n - k + i]

\* C5: a run whose load process exited with a code other than 0 and 99
\* ends 'failed', and its error carries exactly the last min(n, 10) of the
\* n lines the process emitted, in emission order.
C5_FailedCarriesOutputTail ==
    \A r \in DOMAIN test_status :
        (thr[r].pc = "done" /\ thr[r].exit_code \notin {-1, 0, 99}) =>
            /\ test_status[r].status = "failed"
            /\ Has(test_status[r], "error")
            /\ test_status[r].error.tail = TailOfOutput(thr[r].n)

\* the wait for the load process timed out
WaitTimedOut(r) ==
    /\ r \in DOMAIN test_status
    /\ Has(test_status[r], "error")
    /\ test_status[r].error.msg = TimedOutMsg(r)
    /\ thr[r].result = "none"

\* C6: when the wait for the load process has timed out, the run is
\* 'failed' and, once the run has been reported and its thread is over,
\* the process is no longer running.
C6_TimeoutTerminatesProcess ==
    \A r \in DOMAIN test_status :
        WaitTimedOut(r) =>
            /\ test_status[r].status = "failed"
            /\ thr[r].pc = "done" => proc[r].st = "exited"

\* C7: every started run eventually reaches a terminal status, whatever
\* the load process does.
C7_EventuallyTerminal ==
    (thr[1].pc = "start") ~> Terminal(1)

\* report generation failed: a non-zero code, an exception, or no report
ReportFailed(r) == thr[r].result \in {"rc_nonzero", "raised", "no_file"}

\* C8: when the load process succeeded (0 or 99) and report generation
\* failed, the run is never 'completed' afterwards and ends 'failed'.
C8_ReportFailureFailsRun ==
    \A r \in DOMAIN test_status :
        (ExitedOk(r) /\ ReportFailed(r)) =>
            /\ test_status[r].status # "completed"
            /\ thr[r].pc = "done" => test_status[r].status = "failed"

\* the moves of the status the lifecycle allows
Forward ==
    {<<"queued", "running">>, <<"running", "completed">>, <<"running", "failed">>}

\* C9: an entry is inserted 'queued' before the thread of its run has
\* taken a step, and afterwards its status only moves forward along
\* queued -> running -> (completed | failed).
C9_StatusMovesForward ==
    [][\A r \in DOMAIN test_status' :
          IF r \in DOMAIN test_status
          THEN \/ test_status'[r].status = test_status[r].status
               \/ <<test_status[r].status, test_status'[r].status>> \in Forward
          ELSE /\ test_status'[r].status = "queued"
               /\ thr[r].pc = "idle"]_vars

(***************************************************************************)
(* Properties of the endpoint resolution.                                  *)
(***************************************************************************)
Resolved == res.phase = "resolved"

\* the point carries a route tag that is not empty
HasRoute == Resolved /\ Get(res.tags, "route", <<>>) # <<>>

\* the configuration names an endpoint for the point's URL and method
ConfigNamesPoint ==
    get_endpoint_info_from_config(Get(res.tags, "url", <<>>),
                                  Get(res.tags, "method", <<"G", "E", "T">>),
                                  res.config) # <<>>

\* C10: a Duration point whose route tag is present and not empty is
\* labelled with that route tag, whatever its URL, method and name tags
\* and whatever the configuration holds.
C10_RouteTagWins ==
    HasRoute => res.endpoint = res.tags.route

\* a point with a route tag, a name tag and a URL and method that a
\* configured endpoint matches has been resolved
C10_Witness ==
    /\ HasRoute
    /\ ConfigNamesPoint
    /\ Get(res.tags, "name", <<>>) # <<>>
    /\ Get(res.tags, "url", <<>>) # <<>>

\* the point's tags as the chain reads them
PointUrl == Get(res.tags, "url", <<>>)
PointMethod == Get(res.tags, "method", <<"G", "E", "T">>)
PointName == Get(res.tags, "name", <<>>)

\* the point has no route tag, or an empty one
NoRoute == Resolved /\ Get(res.tags, "route", <<>>) = <<>>

\* the configured endpoints whose path and method match the point
MatchingEndpoints ==
    IF res.config.has
    THEN {i \in 1..Len(res.config.endpoints) :
             EndpointMatches(res.config.endpoints[i], PointUrl, PointMethod)}
    ELSE {}

\* the first of them in declaration order
FirstMatch ==
    res.config.endpoints[CHOOSE i \in MatchingEndpoints :
                             \A j \in MatchingEndpoints : i <= j]

\* the label of the name tag, the URL fallback and 'unknown'
LabelWithoutConfig ==
    IF PointName # <<>> THEN PointName
    ELSE IF PointUrl # <<>> THEN PointMethod \o <<" ">> \o LastSegment(PointUrl)
    ELSE <<"u", "n", "k", "n", "o", "w", "n">>

\* C11 as stated: a point without a route tag that a configured endpoint
\* matches is labelled with the configured name of the first matching
\* endpoint, even when it carries a name tag.
C11_FirstMatchNames ==
    (NoRoute /\ MatchingEndpoints # {}) => res.endpoint = FirstMatch.name

\* C11: a point without a route tag whose first matching endpoint has a
\* name that is not empty is labelled with that name, even when it carries
\* a name tag; when that first name is empty, later matching endpoints are
\* not consulted and the point is labelled by its name tag, else by the URL
\* fallback, else 'unknown'.
C11_FirstNamedMatchNames ==
    (NoRoute /\ MatchingEndpoints # {}) =>
        IF FirstMatch.name # <<>>
        THEN res.endpoint = FirstMatch.name
        ELSE res.endpoint = LabelWithoutConfig

\* a point with a name tag and no route tag, matched by two endpoints of
\* different names, has been resolved
C11_Witness ==
    /\ NoRoute
    /\ PointName # <<>>
    /\ Cardinality(MatchingEndpoints) = 2
    /\ FirstMatch.name # <<>>
    /\ res.config.endpoints[2].name # FirstMatch.name

\* C12 as stated: a point with no route tag and no matching endpoint is
\* labelled with its name tag when it carries one, and otherwise, when it
\* carries a URL tag, with the method, a space and the last URL segment.
C12_NameThenUrl ==
    (NoRoute /\ MatchingEndpoints = {}) =>
        IF "name" \in DOMAIN res.tags
        THEN res.endpoint = res.tags.name
        ELSE "url" \in DOMAIN res.tags =>
                 res.endpoint = PointMethod \o <<" ">> \o LastSegment(res.tags.url)

\* C12: a point with no route tag and no matching endpoint is labelled
\* with its name tag when that tag is not empty, and otherwise, when its
\* URL tag is not empty, with the method, a space and the last
\* '/'-separated segment of the URL.
C12_NonEmptyNameThenUrl ==
    (NoRoute /\ MatchingEndpoints = {}) =>
        IF PointName # <<>>
        THEN res.endpoint = PointName
        ELSE PointUrl # <<>> =>
                 res.endpoint = PointMethod \o <<" ">> \o LastSegment(PointUrl)

\* an unmatched point with a name tag and a URL of several segments, and
\* one with a URL only, have been resolved
C12_Witness ==
    /\ NoRoute
    /\ MatchingEndpoints = {}
    /\ res.config.has /\ res.config.endpoints # <<>>
    /\ PointName # <<>>
    /\ PointUrl = <<"h", "/", "a", "/", "b">>

\* C13: a point with no URL tag, no route tag and no name tag is labelled
\* 'unknown' under every configuration, also one with an endpoint whose
\* path is empty or '/'.
C13_NoTagsUnknown ==
    (Resolved /\ DOMAIN res.tags \cap {"url", "route", "name"} = {}) =>
        res.endpoint = <<"u", "n", "k", "n", "o", "w", "n">>

(***************************************************************************)
(* Properties of the thresholds.                                           *)
(***************************************************************************)
\* a configured endpoint without a threshold of its own was given one
DefaultGiven ==
    /\ dflt.phase = "set"
    /\ dflt.endpoint.threshold_ms = <<>>

\* the endpoint's name contains the keyword, whatever the case
NameHas(word) == IsSubstr(word, Lower(dflt.endpoint.name))

\* C20: the default threshold of an endpoint name follows a strict
\* priority of case-insensitive substring tests: 'dashboard' gives 1500
\* whatever else the name contains; else 'student' with 'list' gives
\* 2500; else 'student' with 'details' gives 1500; else 'course' gives
\* 5000; every other name gets 2000.
C20_DefaultByPriority ==
    DefaultGiven =>
        /\ NameHas(Dashboard) => dflt.threshold = 1500
        /\ (~NameHas(Dashboard) /\ NameHas(Student) /\ NameHas(List)) =>
               dflt.threshold = 2500
        /\ (~NameHas(Dashboard) /\ NameHas(Student) /\ ~NameHas(List)
               /\ NameHas(Details)) =>
               dflt.threshold = 1500
        /\ (~NameHas(Dashboard) /\ ~(NameHas(Student) /\ NameHas(List))
               /\ ~(NameHas(Student) /\ NameHas(Details)) /\ NameHas(Course)) =>
               dflt.threshold = 5000
        /\ (~NameHas(Dashboard) /\ ~(NameHas(Student) /\ NameHas(List))
               /\ ~(NameHas(Student) /\ NameHas(Details)) /\ ~NameHas(Course)) =>
               dflt.threshold = 2000

\* a name written in mixed case that contains all five keywords was given
\* its default
C20_Witness ==
    /\ DefaultGiven
    /\ NameHas(Dashboard) /\ NameHas(Student) /\ NameHas(List)
    /\ NameHas(Details) /\ NameHas(Course)
    /\ dflt.endpoint.name # Lower(dflt.endpoint.name)

(***************************************************************************)
(* Properties of the statistics.                                           *)
(***************************************************************************)
Calculated == stat.phase = "stats"
SampleSize == Len(stat.response_times)

\* C16: for a sample of n durations the reported p95 is the maximum of the
\* sample when n < 20 and the reported p99 is the maximum when n < 100;
\* the quantile estimates with 20 and 100 partitions are used from n = 20
\* and n = 100 on.
C16_SmallSampleFallback ==
    Calculated =>
        /\ SampleSize < 20 =>
               stat.stats.p95_response_time = Max(stat.response_times)
        /\ SampleSize < 100 =>
               stat.stats.p99_response_time = Max(stat.response_times)
        /\ SampleSize >= 20 =>
               stat.stats.p95_response_time = Quantile(stat.response_times, 20, 19)
        /\ SampleSize >= 100 =>
               stat.stats.p99_response_time = Quantile(stat.response_times, 100, 99)

\* the statistics of a sample of 19 durations whose median is below its
\* maximum have been calculated
C16_Witness ==
    /\ Calculated
    /\ SampleSize = 19
    /\ stat.stats.p50_response_time < stat.stats.max_response_time

\* C17: for every non-empty sample of durations, of any size, the reported
\* statistics satisfy p50 <= p95 <= p99 <= max and min <= mean <= max.
C17_OrderedStatistics ==
    Calculated =>
        /\ stat.stats.p50_response_time <= stat.stats.p95_response_time
        /\ stat.stats.p95_response_time <= stat.stats.p99_response_time
        /\ stat.stats.p99_response_time <= stat.stats.max_response_time
        /\ stat.stats.min_response_time <= stat.stats.avg_response_time
        /\ stat.stats.avg_response_time <= stat.stats.max_response_time

(***************************************************************************)
(* Properties of the analysis.                                             *)
(***************************************************************************)
\* the function returned stats (and the report may have been written)
HasStats == agg.phase \in {"stats", "reported"}

\* the function returned, with stats or with None
Completed == agg.phase \in {"stats", "reported", "none"}

\* the sum of a counter over the endpoints S
RECURSIVE SumOver(_, _)
SumOver(S, counter) ==
    IF S = {} THEN 0
    ELSE LET e == CHOOSE x \in S : TRUE
         IN  agg.endpoint_stats[e][counter] + SumOver(S \ {e}, counter)

\* C14: after any sequence of lines on which the analysis completes, also
\* with malformed lines and Duration points whose tags have unexpected
\* types, the global request total is the sum of the per-endpoint counts
\* and the global error count is the sum of the per-endpoint error counts.
C14_TotalsAreSums ==
    Completed =>
        /\ agg.total_requests = SumOver(DOMAIN agg.endpoint_stats, "count")
        /\ agg.error_count = SumOver(DOMAIN agg.endpoint_stats, "errors")

\* the line does not parse as the expected structure: no JSON, no object,
\* a Point whose data is missing or no object, a Duration point whose tags
\* are null or whose value is no number
Unexpected(line) ==
    \/ line.json # "object"
    \/ /\ line.metric # "other"
       /\ \/ line.data # "object"
          \/ /\ line.metric = "http_req_duration"
             /\ line.tags_kind = "null" \/ line.value = <<>>

\* the Duration points of positive value among the first k lines
RECURSIVE PositiveValues(_)
PositiveValues(k) ==
    IF k = 0 THEN <<>>
    ELSE LET line == agg.file[k]
         IN  IF ~Unexpected(line) /\ line.metric = "http_req_duration"
                    /\ line.value[1] > 0
             THEN Append(PositiveValues(k - 1), line.value[1])
             ELSE PositiveValues(k - 1)

\* C15: a line that does not parse as the expected structure is dropped
\* and processing continues with the next line: no such line stops the
\* analysis with an error, and the points of the other lines are
\* aggregated.
C15_UnexpectedLinesDropped ==
    /\ agg.phase = "raised" => ~Unexpected(agg.file[agg.line_count])
    /\ agg.phase = "reading" => agg.response_times = PositiveValues(agg.line_count)

\* the points the analysis has counted whose status is a number >= 400
RECURSIVE ErrorPoints(_)
ErrorPoints(k) ==
    IF k = 0 THEN 0
    ELSE LET line == agg.file[k]
             code == ParseInt(Get(line.tags, "status", Status200))
         IN  ErrorPoints(k - 1) +
                 (IF ~Unexpected(line) /\ line.metric = "http_req_duration"
                        /\ line.value[1] > 0 /\ code # <<>> /\ code[1] >= 400
                  THEN 1 ELSE 0)

\* C18: Scenario A (durations 100, 120, 110, 5000 with status 500, 130 of
\* endpoint X, no threshold configured) yields count 5, errors 1, error
\* rate 20, p95 5000, thresholdPassed true, success rate 80 and the
\* label 'Needs Attention'; in general the error count is the number of
\* accepted points whose status is >= 400 and the error rate is
\* errors / total x 100.
C18_ScenarioAndErrorRate ==
    /\ (agg.phase = "reported" /\ agg.file = ScenarioA) =>
           /\ DOMAIN agg.endpoint_stats = {RouteX}
           /\ agg.endpoint_stats[RouteX].count = 5
           /\ agg.endpoint_stats[RouteX].errors = 1
           /\ agg.stats.error_rate.num = 20 * agg.stats.error_rate.den
           /\ agg.endpoint_stats[RouteX].p95 = 5000
           /\ agg.stats.p95_response_time = 5000
           /\ agg.endpoint_stats[RouteX].threshold_passed
           /\ agg.rows[RouteX].success_rate.num = 80 * agg.rows[RouteX].success_rate.den
           /\ agg.rows[RouteX].status_text = "Needs Attention"
    /\ HasStats =>
           /\ agg.stats.error_count = ErrorPoints(Len(agg.file))
           /\ agg.stats.error_rate.num * agg.stats.total_requests
                  = agg.stats.error_count * 100 * agg.stats.error_rate.den

\* Scenario A alone, and the error rate
C18_ScenarioOnly ==
    /\ (agg.phase = "reported" /\ agg.file = ScenarioA) =>
           /\ DOMAIN agg.endpoint_stats = {RouteX}
           /\ agg.endpoint_stats[RouteX].count = 5
           /\ agg.endpoint_stats[RouteX].errors = 1
           /\ agg.stats.error_rate.num = 20 * agg.stats.error_rate.den
           /\ agg.endpoint_stats[RouteX].p95 = 5000
           /\ agg.stats.p95_response_time = 5000
           /\ agg.endpoint_stats[RouteX].threshold_passed
           /\ agg.rows[RouteX].success_rate.num = 80 * agg.rows[RouteX].success_rate.den
           /\ agg.rows[RouteX].status_text = "Needs Attention"
    /\ HasStats =>
           agg.stats.error_rate.num * agg.stats.total_requests
               = agg.stats.error_count * 100 * agg.stats.error_rate.den

\* the endpoints with at least one sample
Sampled == {e \in DOMAIN agg.endpoint_stats : agg.endpoint_stats[e].response_times # <<>>}

\* the configured endpoints named e
ConfiguredAs(e) ==
    {i \in 1..Len(agg.routes_config.endpoints) : agg.routes_config.endpoints[i].name = e}

\* no configured endpoint named e has a threshold of its own
NoExplicitThreshold(e) ==
    \A i \in ConfiguredAs(e) :
        LET threshold_ms == agg.routes_config.endpoints[i].threshold_ms
        IN  threshold_ms = <<>> \/ threshold_ms[1] = 0

\* C19 as stated: every label with a sample and no explicit configured
\* threshold has the threshold derived from its name, wherever the label
\* came from, and thresholdPassed is true exactly when p95 <= threshold.
C19_EveryLabelDerived ==
    HasStats =>
        \A e \in Sampled :
            NoExplicitThreshold(e) =>
                /\ agg.endpoint_stats[e].threshold = <<default_threshold(e)>>
                /\ agg.endpoint_stats[e].threshold_passed
                       = (agg.endpoint_stats[e].p95 <= default_threshold(e))

\* C19: a label with a sample that is the name of a configured endpoint,
\* none of that name with a threshold of its own, has the threshold
\* derived from its name ('Student List API': 2500) and thresholdPassed
\* is true exactly when p95 <= threshold; a label that no configured
\* endpoint is named by has no threshold, and thresholdPassed is true.
C19_ConfiguredLabelsDerived ==
    HasStats =>
        \A e \in Sampled :
            NoExplicitThreshold(e) =>
                IF ConfiguredAs(e) # {}
                THEN /\ agg.endpoint_stats[e].threshold = <<default_threshold(e)>>
                     /\ e = StudentListAPI => agg.endpoint_stats[e].threshold = <<2500>>
                     /\ agg.endpoint_stats[e].threshold_passed
                            = (agg.endpoint_stats[e].p95 <= default_threshold(e))
                ELSE /\ agg.endpoint_stats[e].threshold = <<>>
                     /\ agg.endpoint_stats[e].threshold_passed

\* the analysis has returned with a configured label whose p95 is above
\* its derived threshold and a route label that no endpoint is named by
C19_Witness ==
    /\ HasStats
    /\ {RouteX, StudentListAPI} \subseteq Sampled
    /\ ConfiguredAs(StudentListAPI) # {}
    /\ ConfiguredAs(RouteX) = {}
    /\ agg.endpoint_stats[StudentListAPI].p95 > 2500

\* C21: an endpoint with an explicit numeric threshold_ms, 0 included, has
\* that number as its threshold and not the default derived from its
\* name; the derived default applies only when no number is configured.
C21_ExplicitThresholdWins ==
    dflt.phase = "set" =>
        IF dflt.endpoint.threshold_ms # <<>>
        THEN dflt.threshold = dflt.endpoint.threshold_ms[1]
        ELSE dflt.threshold = default_threshold(dflt.endpoint.name)

(***************************************************************************)
(* Properties of the endpoint rows.                                        *)
(***************************************************************************)
\* successRate >= p, with successRate = (count - errors) / count x 100
RateAtLeast(p) == (row.data.count - row.data.errors) * 100 >= p * row.data.count

\* C22: for an endpoint with count > 0 the label is 'Excellent' exactly
\* when successRate >= 95 and thresholdPassed, 'Good' exactly when
\* 90 <= successRate < 95 and thresholdPassed, and 'Needs Attention' in
\* every other case, in particular whenever thresholdPassed is false.
C22_StatusLabel ==
    row.phase = "row" =>
        /\ row.cells.success_rate.num * row.data.count
               = (row.data.count - row.data.errors) * 100 * row.cells.success_rate.den
        /\ row.cells.status_text = "Excellent"
               <=> (RateAtLeast(95) /\ row.data.threshold_passed)
        /\ row.cells.status_text = "Good"
               <=> (RateAtLeast(90) /\ ~RateAtLeast(95) /\ row.data.threshold_passed)
        /\ row.cells.status_text = "Needs Attention"
               <=> ~(RateAtLeast(90) /\ row.data.threshold_passed)
        /\ ~row.data.threshold_passed => row.cells.status_text = "Needs Attention"

\* the row of an endpoint with a success rate of exactly 95 whose
\* threshold is not passed has been written
C22_Witness ==
    /\ row.phase = "row"
    /\ row.data.errors > 0
    /\ (row.data.count - row.data.errors) * 100 = 95 * row.data.count
    /\ ~row.data.threshold_passed

\* no line of the file is a Duration point of the expected structure with
\* a positive value
NoValidPoint ==
    \A k \in 1..Len(agg.file) :
        LET line == agg.file[k]
        IN  ~(/\ ~Unexpected(line)
              /\ line.metric = "http_req_duration"
              /\ line.value[1] > 0)

\* C30: when no valid Duration point survives the parsing (an empty file,
\* only gauge points, only malformed lines, only durations that are not
\* positive), the analysis ends by returning no statistics, and no report
\* is written.
C30_NothingToReport ==
    agg.phase # "off" /\ NoValidPoint /\ agg.phase # "reading" => agg.phase = "none"

(***************************************************************************)
(* Properties of the chart series.                                         *)
(***************************************************************************)
Charted == tl.phase = "charts"

\* the positions 0, 5, 10, ... of the sorted timeline, counted from 0
SampledPositions == {i \in 0..(Len(tl.sorted_timeline) - 1) : i % 5 = 0}

SampleTime(i) == TimeOf(tl.sorted_timeline[i + 1].timestamp)

\* C23: N points, arriving in any order, give ceil(N/5) samples, the
\* points at the positions 0, 5, 10, ... of the timeline sorted by
\* timestamp, so that the times of the samples never decrease; the label,
\* response time, error rate and VUS series have the same length.
C23_SamplesInTimeOrder ==
    Charted =>
        /\ 5 * (Len(tl.timeline_labels) - 1) < Len(tl.timeline_data)
        /\ Len(tl.timeline_data) <= 5 * Len(tl.timeline_labels)
        /\ Len(tl.timeline_response_times) = Len(tl.timeline_labels)
        /\ Len(tl.error_rates) = Len(tl.timeline_labels)
        /\ Len(tl.vus_values) = Len(tl.timeline_labels)
        /\ Len(tl.vus_labels) = Len(tl.timeline_labels)
        /\ \A i \in SampledPositions :
              tl.timeline_response_times[i \div 5 + 1]
                  = tl.sorted_timeline[i + 1].response_time
        /\ \A i, j \in SampledPositions : i < j => SampleTime(i) <= SampleTime(j)

\* the error rate of the positions lo..hi of the sorted timeline
WindowRate(lo, hi) ==
    RoundedPercent(
        Cardinality({j \in lo..hi : StatusStartsWith45(tl.sorted_timeline[j + 1])}),
        hi - lo + 1)

WindowStart(i) == IF i - 25 > 0 THEN i - 25 ELSE 0

LastPosition == Len(tl.sorted_timeline) - 1

\* C24 as stated: the error rate of the sample at position i is the share
\* of errors among the points from 25 before i to 25 after i, cut at the
\* ends of the timeline.
C24_WindowThrough25After ==
    Charted =>
        \A i \in SampledPositions :
            tl.error_rates[i \div 5 + 1]
                = WindowRate(WindowStart(i),
                             IF i + 25 < LastPosition THEN i + 25 ELSE LastPosition)

\* C24: the error rate of the sample at position i is the share of errors
\* (to two decimals) among the points from 25 before i to 24 after i, cut
\* at the ends of the timeline: 50 points when neither side is cut.
C24_WindowThrough24After ==
    Charted =>
        \A i \in SampledPositions :
            tl.error_rates[i \div 5 + 1]
                = WindowRate(WindowStart(i),
                             IF i + 24 < LastPosition THEN i + 24 ELSE LastPosition)

\* a sample with 25 points before and 25 after it, the 25th after it
\* changing the rate
C24_Witness ==
    /\ Charted
    /\ \E i \in SampledPositions :
         /\ i >= 25
         /\ i + 25 <= LastPosition
         /\ WindowRate(i - 25, i + 24) # WindowRate(i - 25, i + 25)

GaugeIndexes == 1..Len(tl.vus_timeline)

GaugeDistance(g, i) ==
    AbsDiff(TimeOf(tl.vus_timeline[g].timestamp), SampleTime(i))

\* the gauge points as close in time to the sample at position i as any
ClosestGauges(i) ==
    {g \in GaugeIndexes : \A h \in GaugeIndexes : GaugeDistance(g, i) <= GaugeDistance(h, i)}

\* the gauge points with the timestamp of the sample at position i
EqualGauges(i) ==
    {g \in GaugeIndexes :
        tl.vus_timeline[g].timestamp = tl.sorted_timeline[i + 1].timestamp}

\* C25: the VUS value of a sample is the value of a gauge point with the
\* same timestamp if there is one, else the value of a gauge point at the
\* least distance in time, and 0 when there is no gauge point.
C25_ClosestGauge ==
    Charted =>
        \A i \in SampledPositions :
            LET value == tl.vus_values[i \div 5 + 1]
            IN  /\ GaugeIndexes = {} => value = 0
                /\ EqualGauges(i) # {} =>
                      \E g \in EqualGauges(i) : value = tl.vus_timeline[g].vus
                /\ GaugeIndexes # {} /\ EqualGauges(i) = {} =>
                      \E g \in ClosestGauges(i) : value = tl.vus_timeline[g].vus

\* a sample without a gauge point of its timestamp, and a gauge point
\* that is not the closest
C25_Witness ==
    /\ Charted
    /\ \E i \in SampledPositions :
         /\ EqualGauges(i) = {}
         /\ ClosestGauges(i) # {}
         /\ ClosestGauges(i) # GaugeIndexes

(***************************************************************************)
(* Properties of the tracker.                                              *)
(***************************************************************************)
Tracking == trk.phase = "reading"

\* the line has the form '<a>/<b> VUs'
HasBothForm(line) == vus_pattern_search(line) # <<>>

\* the line has the form '<n> VUs' and not the form '<a>/<b> VUs'
HasSimpleForm(line) == ~HasBothForm(line) /\ simple_vus_pattern_search(line) # <<>>

HasPercent(line) == progress_pattern_search(line) # <<>>

HasRunning(line) == stage_pattern_search(line) # <<>>

HasPhrase(line, phrase) == IsSubstr(phrase, Lower(line))

HasStagePhrase(line) ==
    HasPhrase(line, RampingUp) \/ HasPhrase(line, RampingDown) \/ HasPhrase(line, StayingAt)

\* the last of a non-empty set of positions
Latest(S) == CHOOSE i \in S : \A j \in S : j <= i

BothFormLines == {i \in 1..Len(trk.consumed) : HasBothForm(trk.consumed[i])}

SimpleFormLines == {i \in 1..Len(trk.consumed) : HasSimpleForm(trk.consumed[i])}

\* C26: after any sequence of lines currentVUs is the a of the last
\* '<a>/<b> VUs' line or the n of the last '<n> VUs' line without that
\* form, whichever is later, and targetVUs is the b of the last
\* '<a>/<b> VUs' line: a '<n> VUs' line leaves it as it was, and an
\* '<a>/<b> VUs' line never makes b the current value.
C26_VUsOfLastLine ==
    Tracking =>
        /\ BothFormLines \cup SimpleFormLines # {} =>
              LET line == trk.consumed[Latest(BothFormLines \cup SimpleFormLines)]
                  vus == IF HasBothForm(line)
                         THEN DecimalValue(vus_pattern_search(line)[1])
                         ELSE DecimalValue(simple_vus_pattern_search(line)[1])
              IN  trk.current_vus = vus /\ trk.status.vus = <<vus>>
        /\ BothFormLines # {} =>
              LET b == DecimalValue(vus_pattern_search(trk.consumed[Latest(BothFormLines)])[2])
              IN  trk.target_vus = b /\ trk.status.target_vus = <<b>>
        /\ BothFormLines = {} => trk.target_vus = 0 /\ trk.status.target_vus = <<>>

\* an '<a>/<b> VUs' line, later a '<n> VUs' line, later another line
C26_Witness ==
    /\ Tracking
    /\ \E i \in BothFormLines, j \in SimpleFormLines :
         i < j /\ j < Len(trk.consumed) /\ j = Latest(BothFormLines \cup SimpleFormLines)

\* the step consumes a line
Consumes == Tracking /\ trk'.consumed # trk.consumed

ConsumedLine == trk'.consumed[Len(trk'.consumed)]

ScenarioC == trk.consumed = <<LineVus, LineRunning>>

\* C27: a line with 'running (<d>)' and no stage phrase makes d the running
\* time and 'Running for d' the label and, having no VUs form, keeps the
\* VU fields; after the lines '342/500 VUs' and 'running (1m30s)' the VUs
\* are 342 of 500, the running time is '1m30s' and the label is
\* 'Running for 1m30s'.
C27_RunningLine ==
    /\ [](Tracking /\ ScenarioC =>
            /\ trk.current_vus = 342
            /\ trk.status.vus = <<342>>
            /\ trk.target_vus = 500
            /\ trk.status.target_vus = <<500>>
            /\ trk.status.running_time = <<<<"1", "m", "3", "0", "s">>>>
            /\ trk.status.stage = RunningFor(<<"1", "m", "3", "0", "s">>))
    /\ [][Consumes /\ HasRunning(ConsumedLine) /\ ~HasStagePhrase(ConsumedLine) =>
            /\ trk'.status.running_time = stage_pattern_search(ConsumedLine)
            /\ trk'.status.stage = RunningFor(stage_pattern_search(ConsumedLine)[1])
            /\ ~HasBothForm(ConsumedLine) /\ ~HasSimpleForm(ConsumedLine) =>
                  /\ trk'.current_vus = trk.current_vus
                  /\ trk'.target_vus = trk.target_vus
                  /\ trk'.status.vus = trk.status.vus
                  /\ trk'.status.target_vus = trk.status.target_vus]_vars

C27_Witness == Tracking /\ ScenarioC

RampingUpLines == {i \in 1..Len(trk.consumed) : HasPhrase(trk.consumed[i], RampingUp)}

\* C28: the stage index is 1 plus the number of consumed lines with
\* 'ramping up' in any case, also beyond the number of stages; a line with
\* 'ramping down' or 'staying at' (and without 'ramping up') sets the label
\* with the stage index as it is.
C28_StageCountsRampingUp ==
    Tracking =>
        /\ trk.current_stage = 1 + Cardinality(RampingUpLines)
        /\ RampingUpLines # {} => trk.status.current_stage = <<trk.current_stage>>
        /\ trk.consumed # <<>> =>
              LET line == trk.consumed[Len(trk.consumed)]
              IN  /\ HasPhrase(line, RampingUp) =>
                        trk.status.stage
                            = StageOf(trk.current_stage, trk.total_stages, "Ramping up")
                  /\ ~HasPhrase(line, RampingUp) /\ HasPhrase(line, RampingDown) =>
                        trk.status.stage
                            = StageOf(trk.current_stage, trk.total_stages, "Ramping down")
                  /\ /\ ~HasPhrase(line, RampingUp)
                     /\ ~HasPhrase(line, RampingDown)
                     /\ HasPhrase(line, StayingAt)
                     => trk.status.stage
                            = StageOf(trk.current_stage, trk.total_stages, "Steady state")

\* more lines with 'ramping up' than stages, then a line with 'ramping down'
C28_Witness ==
    /\ Tracking
    /\ trk.current_stage > trk.total_stages
    /\ trk.status.stage = StageOf(trk.current_stage, trk.total_stages, "Ramping down")

\* the rules of the VUs, the percentage and the running time, which no
\* other rule keeps from taking effect
FormsTakeEffect ==
    /\ HasBothForm(ConsumedLine) =>
          /\ trk'.current_vus = DecimalValue(vus_pattern_search(ConsumedLine)[1])
          /\ trk'.target_vus = DecimalValue(vus_pattern_search(ConsumedLine)[2])
    /\ HasSimpleForm(ConsumedLine) =>
          trk'.current_vus = DecimalValue(simple_vus_pattern_search(ConsumedLine)[1])
    /\ HasPercent(ConsumedLine) =>
          trk'.progress_percent = DecimalValue(progress_pattern_search(ConsumedLine)[1])
    /\ HasRunning(ConsumedLine) =>
          trk'.status.running_time = stage_pattern_search(ConsumedLine)
    /\ HasRunning(ConsumedLine) /\ ~HasStagePhrase(ConsumedLine) =>
          trk'.status.stage = RunningFor(stage_pattern_search(ConsumedLine)[1])
    /\ HasPhrase(ConsumedLine, RampingUp) => trk'.current_stage = trk.current_stage + 1
    /\ ~HasPhrase(ConsumedLine, RampingUp) => trk'.current_stage = trk.current_stage

\* C29 as stated: every rule whose pattern the line has takes effect, in
\* the order of the rules, none keeping another from it but the
\* '<a>/<b> VUs' form the '<n> VUs' form: the label is that of the last
\* stage phrase the line has.
C29_EveryRuleFires ==
    [][Consumes =>
        /\ FormsTakeEffect
        /\ HasPhrase(ConsumedLine, StayingAt) =>
              trk'.status.stage
                  = StageOf(trk'.current_stage, trk.total_stages, "Steady state")
        /\ ~HasPhrase(ConsumedLine, StayingAt) /\ HasPhrase(ConsumedLine, RampingDown) =>
              trk'.status.stage
                  = StageOf(trk'.current_stage, trk.total_stages, "Ramping down")
        /\ /\ ~HasPhrase(ConsumedLine, StayingAt)
           /\ ~HasPhrase(ConsumedLine, RampingDown)
           /\ HasPhrase(ConsumedLine, RampingUp)
           => trk'.status.stage
                  = StageOf(trk'.current_stage, trk.total_stages, "Ramping up")]_vars

\* C29: every rule of the VUs, the percentage and the running time whose
\* pattern the line has takes effect, the '<n> VUs' form only without the
\* '<a>/<b> VUs' form; of the stage phrases only the first the line has, in
\* the order 'ramping up', 'ramping down', 'staying at', takes effect, and
\* its label replaces that of the running time.
C29_FirstStagePhraseFires ==
    [][Consumes =>
        /\ FormsTakeEffect
        /\ HasPhrase(ConsumedLine, RampingUp) =>
              trk'.status.stage
                  = StageOf(trk'.current_stage, trk.total_stages, "Ramping up")
        /\ ~HasPhrase(ConsumedLine, RampingUp) /\ HasPhrase(ConsumedLine, RampingDown) =>
              trk'.status.stage
                  = StageOf(trk'.current_stage, trk.total_stages, "Ramping down")
        /\ /\ ~HasPhrase(ConsumedLine, RampingUp)
           /\ ~HasPhrase(ConsumedLine, RampingDown)
           /\ HasPhrase(ConsumedLine, StayingAt)
           => trk'.status.stage
                  = StageOf(trk'.current_stage, trk.total_stages, "Steady state")]_vars

\* a line with the running time and two stage phrases has been consumed
C29_Witness ==
    /\ Tracking
    /\ trk.consumed # <<>>
    /\ LET line == trk.consumed[Len(trk.consumed)]
       IN  /\ HasRunning(line)
           /\ HasPhrase(line, RampingUp)
           /\ HasPhrase(line, RampingDown)
           /\ trk.status.stage = StageOf(trk.current_stage, trk.total_stages, "Ramping up")

(***************************************************************************)
(* Properties of the loader.                                               *)
(***************************************************************************)
\* the configuration file is missing or cannot be read as JSON
Unloadable == loader.files[1].kind \in {"missing", "denied", "invalid"}

\* C31: loading the configuration never fails the analysis: when the
\* configuration file is missing or unreadable the loader returns the empty
\* configuration and the telemetry is analysed.
C31_LoadNeverFails ==
    /\ loader.phase # "raised"
    /\ loader.phase = "reading" /\ Unloadable => loader.routes_config = EmptyConfig

(***************************************************************************)
(* Properties of the accumulators of the analysis.                         *)
(***************************************************************************)
Reported == agg.phase = "reported"

\* the step reads a line of the telemetry file and the loop goes on
ReadsLine ==
    /\ agg.phase = "reading"
    /\ agg'.phase = "reading"
    /\ agg'.line_count = agg.line_count + 1

LineRead == agg.file[agg'.line_count]

GlobalUnchanged ==
    /\ agg'.response_times = agg.response_times
    /\ agg'.total_requests = agg.total_requests
    /\ agg'.timeline_data = agg.timeline_data
    /\ agg'.error_count = agg.error_count
    /\ agg'.endpoint_stats = agg.endpoint_stats

\* the line is dropped
LeavesAccumulators == GlobalUnchanged /\ agg'.vus_timeline = agg.vus_timeline

\* the line contributes a gauge entry
AddsGauge == GlobalUnchanged /\ Len(agg'.vus_timeline) = Len(agg.vus_timeline) + 1

\* the line contributes a Duration point of endpoint e, with both error
\* counters when its status is 400 or more
AddsDuration(e) ==
    LET value == LineRead.value[1]
        code == ParseInt(Get(LineRead.tags, "status", Status200))
        error == IF code # <<>> /\ code[1] >= 400 THEN 1 ELSE 0
        before == Get(agg.endpoint_stats, e, NewEndpoint)
    IN  /\ code # <<>>
        /\ agg'.vus_timeline = agg.vus_timeline
        /\ agg'.response_times = Append(agg.response_times, value)
        /\ agg'.total_requests = agg.total_requests + 1
        /\ Len(agg'.timeline_data) = Len(agg.timeline_data) + 1
        /\ agg'.error_count = agg.error_count + error
        /\ DOMAIN agg'.endpoint_stats = DOMAIN agg.endpoint_stats \cup {e}
        /\ \A x \in DOMAIN agg.endpoint_stats \ {e} :
              agg'.endpoint_stats[x] = agg.endpoint_stats[x]
        /\ agg'.endpoint_stats[e].response_times = Append(before.response_times, value)
        /\ agg'.endpoint_stats[e].count = before.count + 1
        /\ agg'.endpoint_stats[e].errors = before.errors + error

\* C32: a telemetry line is applied to the accumulators as a whole: it
\* contributes one complete point (a gauge entry, or a Duration point with
\* its global and endpoint samples and counts and, for a status of 400 or
\* more, both error counters), or, when it is dropped for any reason, also
\* one found late such as a status that is no integer, it leaves every
\* accumulator as it was.
C32_LinesAreAtomic ==
    [][ReadsLine =>
          \/ LeavesAccumulators
          \/ AddsGauge
          \/ \E e \in DOMAIN agg'.endpoint_stats : AddsDuration(e)]_vars

\* the status tag of line k of the file is no integer
StatusNotInteger(k) ==
    ParseInt(Get(agg.file[k].tags, "status", Status200)) = <<>>

\* C37: after any sequence of telemetry lines the number of global samples
\* is the global request total and the number of timeline entries, and
\* every endpoint has as many samples as its count says and no more errors
\* than that.
C37_CountsAgree ==
    agg.phase # "off" =>
        /\ Len(agg.response_times) = agg.total_requests
        /\ Len(agg.timeline_data) = agg.total_requests
        /\ \A e \in DOMAIN agg.endpoint_stats :
              /\ Len(agg.endpoint_stats[e].response_times) = agg.endpoint_stats[e].count
              /\ agg.endpoint_stats[e].errors <= agg.endpoint_stats[e].count

\* three points counted, one of them an error, one with a status that is
\* no integer
C37_Witness ==
    /\ agg.phase = "stats"
    /\ agg.total_requests = 3
    /\ \E e \in DOMAIN agg.endpoint_stats : agg.endpoint_stats[e].errors >= 1
    /\ \E k \in 1..Len(agg.file) :
         /\ ~Unexpected(agg.file[k])
         /\ agg.file[k].metric = "http_req_duration"
         /\ agg.file[k].value[1] > 0
         /\ StatusNotInteger(k)

\* C33: the error count and the windowed error rate of the timeline count
\* the same points as errors: for a timeline of at most 25 points, whatever
\* their status tags, the windowed error rate of the sample at index 0 is
\* the global error rate (to two decimals).
C33_SameNotionOfError ==
    Reported /\ Len(agg.timeline_data) <= 25 =>
        agg.error_rates[1]
            = RoundedPercent(agg.stats.error_count, agg.stats.total_requests)

(***************************************************************************)
(* Properties of runs that share the server.                               *)
(***************************************************************************)
\* the run's thread was started
Started(r) == thr[r].pc # "idle"

\* C34: whenever a run is 'completed' with a report reference, the reference
\* names the report that this same run produced: not the report of another
\* run, nor one left in the reports directory by an earlier run.
C34_ReportOfSameRun ==
    \A r \in DOMAIN test_status :
        test_status[r].status = "completed" /\ Has(test_status[r], "report_file")
            => test_status[r].report_file = r

\* every run was started and every thread has left its function
AllFinished == \A r \in Runs : Started(r) /\ Ended(r)

\* C35: after every started run has finished, the working directory of the
\* server is the directory it was before the first run started, and the
\* test directory of every finished run has been removed.
C35_DirectoryRestored ==
    AllFinished => cwd = OrigDir /\ dirs = {}

\* C36: once the thread of a run has ended, the status of the run is
\* 'completed' or 'failed', and never still 'queued' or 'running'.
C36_EndedIsTerminal ==
    \A r \in DOMAIN thr : Started(r) /\ Ended(r) => Terminal(r)

====
